---- MODULE Spec2Model ----
(***************************************************************************)
(* Gematria trainer: the spaced-repetition core.                           *)
(*                                                                         *)
(* The repository's Python files under tests/ carry the reference          *)
(* implementations of the scheduler (SM-2), the card state, the mastery    *)
(* rule, the card selection policy and the tier progression.  This module  *)
(* translates them.                                                        *)
(*                                                                         *)
(* Numbers.  Ease factors are reals with two decimals in the source; here  *)
(* they are integers in hundredths (2.5 is 250, 1.3 is 130).  The mastery  *)
(* accuracy 0.8 is 80 hundredths, and the comparison                       *)
(* correct / reviews >= 0.8 is made on cross-multiplied integers.  A       *)
(* timestamp is a whole number of ticks of the clock; the selection only   *)
(* compares overdue values with 0 and with each other, so the scale from   *)
(* ticks to minutes is left out.                                           *)
(***************************************************************************)
EXTENDS Integers, Sequences, FiniteSets, TLC

VARIABLES
    state,      \* the ProgressionState record of one system
    op,         \* the operation that ran last
    args,       \* the arguments of that operation
    ret,        \* what it returned
    calls,      \* try_advance calls made with mastered cards since create_state
    sm2,        \* <<reps, interval, ef>> driven by sm2_review
    card        \* one card state driven by _sm2_review

vars == <<state, op, args, ret, calls, sm2, card>>

-----------------------------------------------------------------------------
(* Program constants *)

DEFAULT_EASE == 250
MIN_EASE == 130
MASTERY_ACCURACY == 80
MASTERY_MIN_REPS == 3

QUALITY_WRONG == 1
QUALITY_UNSURE == 3
QUALITY_GOOD == 4
QUALITY_EASY == 5

Qualities == {QUALITY_WRONG, QUALITY_UNSURE, QUALITY_GOOD, QUALITY_EASY}

\* "2026-01-01T00:00:00Z", the timestamp the card constructors and _sm2_review
\* write into next_review; minute 0 of the model's clock.
FIXED_NEXT_REVIEW == 0

\* last_quality of a card that was never reviewed (None in the source)
NoQuality == 0

TIER_COUNTS ==
    [hechrachi |-> 8, gadol |-> 8, katan |-> 4, siduri |-> 4,
     atbash |-> 3, albam |-> 3, avgad |-> 3]

Systems == DOMAIN TIER_COUNTS

\* The 7 systems and a name that is none of them
SystemInputs == Systems \cup {"unknown"}

\* The answers the learner gives in the progression specification: one that
\* fails (quality < 3) and one that succeeds.  The scheduler specification
\* draws from all of Qualities.
ReviewQualities == {QUALITY_WRONG, QUALITY_GOOD}

-----------------------------------------------------------------------------
(* Bounds of the model *)

\* cards generated for one static tier (the catalog's tiers hold 8 to 54)
MaxCards == 1
\* review events over the cards a progression state holds
MaxReviews == 10
\* try_advance calls with mastered cards that AdvSpec counts
MaxCalls == 9
\* cards in a collection handed to select_next / _check_mastery
MaxSelCards == 2
\* |now - next_review| of a card handed to select_next, in minutes
MaxOverdue == 2
\* review_count of a card handed to _check_mastery
MaxCount == 5
\* reviews applied to one card in SchedSpec
MaxSchedSteps == 5
\* numbers below a thousand handed to _encode
MaxEncode == 999
\* leading specs of a tier that a fresh population may reorder
MaxShuffled == 2
\* independent fresh populations of one tier
MaxSessions == 2
\* cards of one tier in the collection specification
MaxCollCards == 3
\* reviews of one collection
MaxCollReviews == 3
\* cards of a freshly populated tier handed to select_next
MaxFreshCards == 3
\* rows a malformed letter table is short of, or has beyond, the 22
MaxDropped == 2
\* cards of one tier in the session specification
MaxLiveCards == 2
\* failed answers in one session
MaxFailures == 1
\* minutes that may pass between two turns of the session loop
MaxElapsed == 1
\* reviews in one session of an 8-tier system
MaxLadderReviews == 13

-----------------------------------------------------------------------------
(* Arithmetic helpers *)

Max(a, b) == IF a >= b THEN a ELSE b

\* Python's round() on the quotient num / den (den > 0): to the nearest
\* integer, a tie going to the even neighbour.
round(num, den) ==
    LET q == num \div den
        r == num % den
    IN  IF 2 * r < den THEN q
        ELSE IF 2 * r > den THEN q + 1
        ELSE IF q % 2 = 0 THEN q ELSE q + 1

\* sum(c["review_count"] for c in cards)
SumReviews(cards) ==
    LET S[i \in 0..Len(cards)] ==
            IF i = 0 THEN 0 ELSE S[i - 1] + cards[i].review_count
    IN  S[Len(cards)]

\* sum(c["correct_count"] for c in cards)
SumCorrect(cards) ==
    LET S[i \in 0..Len(cards)] ==
            IF i = 0 THEN 0 ELSE S[i - 1] + cards[i].correct_count
    IN  S[Len(cards)]

-----------------------------------------------------------------------------
(* Scheduler: tests/test_spaced_repetition.py *)

\* adjust_ease with a delta that is linear in (5 - quality)
adjust_ease_linear(ef, quality) ==
    LET delta == 10 - (5 - quality) * 8
    IN  Max(MIN_EASE, ef + delta)

\* delta = 0.1 - (5 - quality) * (0.08 + (5 - quality) * 0.02), in hundredths
adjust_ease(ef, quality) ==
    LET delta == 10 - (5 - quality) * (8 + (5 - quality) * 2)
    IN  Max(MIN_EASE, ef + delta)

\* sm2_review with a failure that resets repetitions but keeps the interval
sm2_review_keeps_interval(reps, interval, ef, quality) ==
    LET new_ef == adjust_ease(ef, quality)
        new_interval ==
            IF reps = 0 THEN 1
            ELSE IF reps = 1 THEN 6
            ELSE round(interval * new_ef, 100)
    IN  IF quality < 3 THEN <<0, interval, new_ef>>
        ELSE <<reps + 1, new_interval, new_ef>>

\* sm2_review that multiplies the interval by the ease as it was before
sm2_review_old_ease(reps, interval, ef, quality) ==
    LET new_ef == adjust_ease(ef, quality)
        new_interval ==
            IF reps = 0 THEN 1
            ELSE IF reps = 1 THEN 6
            ELSE round(interval * ef, 100)
    IN  IF quality < 3 THEN <<0, 1, new_ef>>
        ELSE <<reps + 1, new_interval, new_ef>>

\* Returns <<new_reps, new_interval, new_ef>>
sm2_review(reps, interval, ef, quality) ==
    LET new_ef == adjust_ease(ef, quality)
        new_interval ==
            IF reps = 0 THEN 1
            ELSE IF reps = 1 THEN 6
            ELSE round(interval * new_ef, 100)
    IN  IF quality < 3 THEN <<0, 1, new_ef>>
        ELSE <<reps + 1, new_interval, new_ef>>

-----------------------------------------------------------------------------
(* Card state: tests/test_card_state.py *)

\* _adjust_ease without the max(MIN_EASE, ...)
_adjust_ease_unclamped(ef, quality) ==
    LET delta == 10 - (5 - quality) * (8 + (5 - quality) * 2)
    IN  ef + delta

_adjust_ease(ef, quality) ==
    LET delta == 10 - (5 - quality) * (8 + (5 - quality) * 2)
    IN  Max(MIN_EASE, ef + delta)

_create_card(card_id) ==
    [card_id |-> card_id,
     ease_factor |-> DEFAULT_EASE,
     interval_minutes |-> 1,
     repetitions |-> 0,
     next_review |-> FIXED_NEXT_REVIEW,
     last_quality |-> NoQuality,
     review_count |-> 0,
     correct_count |-> 0]

\* The interval this review gives a card that answered well (quality >= 3)
_sm2_interval(c, new_ef) ==
    IF c.repetitions = 0 THEN 2
    ELSE IF c.repetitions = 1 THEN 10
    ELSE round(c.interval_minutes * new_ef, 100)

\* _sm2_review that counts only quality > 3 as correct
_sm2_review_unsure_incorrect(c, quality) ==
    LET new_ef == _adjust_ease(c.ease_factor, quality)
        new_reps == IF quality < 3 THEN 0 ELSE c.repetitions + 1
        new_interval == IF quality < 3 THEN 1 ELSE _sm2_interval(c, new_ef)
    IN  [card_id |-> c.card_id,
         ease_factor |-> new_ef,
         interval_minutes |-> new_interval,
         repetitions |-> new_reps,
         next_review |-> FIXED_NEXT_REVIEW,
         last_quality |-> quality,
         review_count |-> c.review_count + 1,
         correct_count |-> c.correct_count + (IF quality > 3 THEN 1 ELSE 0)]

\* _sm2_review that leaves last_quality as it was
_sm2_review_stale_quality(c, quality) ==
    LET new_ef == _adjust_ease(c.ease_factor, quality)
        new_reps == IF quality < 3 THEN 0 ELSE c.repetitions + 1
        new_interval == IF quality < 3 THEN 1 ELSE _sm2_interval(c, new_ef)
    IN  [card_id |-> c.card_id,
         ease_factor |-> new_ef,
         interval_minutes |-> new_interval,
         repetitions |-> new_reps,
         next_review |-> FIXED_NEXT_REVIEW,
         last_quality |-> c.last_quality,
         review_count |-> c.review_count + 1,
         correct_count |-> c.correct_count + (IF quality >= 3 THEN 1 ELSE 0)]

\* _sm2_review whose failure resets the repetitions but leaves the interval
_sm2_review_failure_keeps_interval(c, quality) ==
    LET new_ef == _adjust_ease(c.ease_factor, quality)
        new_reps == IF quality < 3 THEN 0 ELSE c.repetitions + 1
        new_interval == IF quality < 3 THEN c.interval_minutes
                        ELSE _sm2_interval(c, new_ef)
    IN  [card_id |-> c.card_id,
         ease_factor |-> new_ef,
         interval_minutes |-> new_interval,
         repetitions |-> new_reps,
         next_review |-> FIXED_NEXT_REVIEW,
         last_quality |-> quality,
         review_count |-> c.review_count + 1,
         correct_count |-> c.correct_count + (IF quality >= 3 THEN 1 ELSE 0)]

\* SM-2 review + tracking fields
_sm2_review(c, quality) ==
    LET new_ef == _adjust_ease(c.ease_factor, quality)
        new_reps == IF quality < 3 THEN 0 ELSE c.repetitions + 1
        new_interval == IF quality < 3 THEN 1 ELSE _sm2_interval(c, new_ef)
    IN  [card_id |-> c.card_id,
         ease_factor |-> new_ef,
         interval_minutes |-> new_interval,
         repetitions |-> new_reps,
         next_review |-> FIXED_NEXT_REVIEW,
         last_quality |-> quality,
         review_count |-> c.review_count + 1,
         correct_count |-> c.correct_count + (IF quality >= 3 THEN 1 ELSE 0)]

\* _level_accuracy compared with > where the source compares with >=
_level_accuracy_above(cards, threshold) ==
    IF SumReviews(cards) > 0
    THEN 100 * SumCorrect(cards) > threshold * SumReviews(cards)
    ELSE 0 > threshold

\* total_correct / total_reviews >= threshold, both sides times
\* 100 * total_reviews; 0 >= threshold when nothing was reviewed
_level_accuracy_at_least(cards, threshold) ==
    IF SumReviews(cards) > 0
    THEN 100 * SumCorrect(cards) >= threshold * SumReviews(cards)
    ELSE 0 >= threshold

_check_mastery(cards) ==
    /\ cards # <<>>
    /\ \A i \in 1..Len(cards) : ~(cards[i].review_count < MASTERY_MIN_REPS)
    /\ _level_accuracy_at_least(cards, MASTERY_ACCURACY)

\* replace_card that takes the old state out and puts the updated one at
\* the end of the collection
replace_card_at_end(cards, updated) ==
    LET hits == {i \in 1..Len(cards) : cards[i].card_id = updated.card_id}
    IN  IF hits = {} THEN cards
        ELSE Append(SelectSeq(cards, LAMBDA c : c.card_id # updated.card_id),
                    updated)

\* cards[i] = updated for the first i whose card_id is updated's
replace_card(cards, updated) ==
    LET hits == {i \in 1..Len(cards) : cards[i].card_id = updated.card_id}
    IN  IF hits = {} THEN cards
        ELSE LET first == CHOOSE i \in hits : \A j \in hits : i <= j
             IN  [cards EXCEPT ![first] = updated]

-----------------------------------------------------------------------------
(* Card selection: tests/test_card_selection.py *)

None == [none |-> TRUE]

_create_card_selection(card_id, next_review, review_count, correct_count, repetitions) ==
    [card_id |-> card_id,
     ease_factor |-> DEFAULT_EASE,
     interval_minutes |-> 1,
     repetitions |-> repetitions,
     next_review |-> next_review,
     last_quality |-> NoQuality,
     review_count |-> review_count,
     correct_count |-> correct_count]

_make_spec(card_id) ==
    [id |-> card_id, type |-> "letter-to-value", prompt |-> "?", answer |-> "?"]

\* (now - due) in clock ticks; the function reads the clock itself, so `now`
\* is the reading this one call gets
_overdue_minutes(c, now) == now - c.next_review

\* Index of the card returned, 0 for None.  The k-th card's overdue is
\* computed from reads[k], the clock as read in the k-th pass of the loop.
_find_most_overdue(cards, reads) ==
    LET best[k \in 0..Len(cards)] ==
            IF k = 0 THEN 0
            ELSE LET overdue == _overdue_minutes(cards[k], reads[k])
                     b == best[k - 1]
                 IN  IF /\ overdue > 0
                        /\ \/ b = 0
                           \/ overdue > _overdue_minutes(cards[b], reads[b])
                     THEN k ELSE b
    IN  best[Len(cards)]

\* card_map.get(id): the last card of the collection that carries the id
card_map_get(cards, id) ==
    LET hits == {i \in 1..Len(cards) : cards[i].card_id = id}
    IN  IF hits = {} THEN 0 ELSE CHOOSE i \in hits : \A j \in hits : j <= i

\* <<index of the card, index of the spec>>, <<0, 0>> for None
_find_new_card(cards, specs) ==
    LET new == {j \in 1..Len(specs) :
                    LET i == card_map_get(cards, specs[j].id)
                    IN  i # 0 /\ cards[i].review_count = 0}
    IN  IF new = {} THEN <<0, 0>>
        ELSE LET j == CHOOSE x \in new : \A y \in new : x <= y
             IN  <<card_map_get(cards, specs[j].id), j>>

\* Index of the card returned, 0 for None; reads as in _find_most_overdue
_find_soonest_due(cards, reads) ==
    LET best[k \in 0..Len(cards)] ==
            IF k = 0 THEN 0
            ELSE LET overdue == _overdue_minutes(cards[k], reads[k])
                     b == best[k - 1]
                 IN  IF b = 0 \/ overdue > _overdue_minutes(cards[b], reads[b])
                     THEN k ELSE b
    IN  best[Len(cards)]

_check_mastery_selection(cards) ==
    /\ cards # <<>>
    /\ \A i \in 1..Len(cards) : ~(cards[i].review_count < MASTERY_MIN_REPS)
    /\ SumReviews(cards) > 0
    /\ 100 * SumCorrect(cards) >= MASTERY_ACCURACY * SumReviews(cards)

\* spec_map.get that answers with the first spec, whatever the id
spec_map_get_first(specs, id) ==
    IF specs = <<>> THEN None ELSE specs[1]

\* spec_map.get(id): the last spec that carries the id, None when there is none
spec_map_get(specs, id) ==
    LET hits == {j \in 1..Len(specs) : specs[j].id = id}
    IN  IF hits = {} THEN None
        ELSE specs[CHOOSE j \in hits : \A k \in hits : k <= j]

\* select_next without the soonest-due fallback
select_next_no_fallback(cards, specs, reads) ==
    LET overdue == _find_most_overdue(cards, reads)
        new == _find_new_card(cards, specs)
    IN  IF overdue # 0
        THEN [type |-> "card", card |-> cards[overdue],
              spec |-> spec_map_get(specs, cards[overdue].card_id)]
        ELSE IF new # <<0, 0>>
        THEN [type |-> "card", card |-> cards[new[1]], spec |-> specs[new[2]]]
        ELSE IF _check_mastery_selection(cards)
        THEN [type |-> "advance", card |-> None, spec |-> None]
        ELSE [type |-> "review", card |-> None, spec |-> None]

\* reads[1..n] are the clock readings of _find_most_overdue's loop and
\* reads[n+1..2n] those of _find_soonest_due's loop, n = len(cards)
select_next(cards, specs, reads) ==
    LET n == Len(cards)
        overdue == _find_most_overdue(cards, reads)
        new == _find_new_card(cards, specs)
        soonest == _find_soonest_due(cards, [k \in 1..n |-> reads[n + k]])
    IN  IF overdue # 0
        THEN [type |-> "card", card |-> cards[overdue],
              spec |-> spec_map_get(specs, cards[overdue].card_id)]
        ELSE IF new # <<0, 0>>
        THEN [type |-> "card", card |-> cards[new[1]], spec |-> specs[new[2]]]
        ELSE IF _check_mastery_selection(cards)
        THEN [type |-> "advance", card |-> None, spec |-> None]
        ELSE IF soonest # 0
        THEN [type |-> "card", card |-> cards[soonest],
              spec |-> spec_map_get(specs, cards[soonest].card_id)]
        ELSE [type |-> "review", card |-> None, spec |-> None]

-----------------------------------------------------------------------------
(* Level catalog: tests/test_levels.py *)

LEVEL_COUNTS ==
    [hechrachi |-> 8, gadol |-> 8, katan |-> 4, siduri |-> 4,
     atbash |-> 3, albam |-> 3, avgad |-> 3]

\* LEVEL_COUNTS.get(system, 0)
_level_count(system) ==
    IF system \in DOMAIN LEVEL_COUNTS THEN LEVEL_COUNTS[system] ELSE 0

\* Tiers 5 to 8 of the 8-tier systems are procedural: they carry no static specs
_is_static(system, level) ==
    IF _level_count(system) = 8 THEN level <= 4 ELSE TRUE

\* The ids of the specs of one tier, at most MaxCards of them
LevelSpecIds(system, level) ==
    IF _is_static(system, level) THEN [i \in 1..MaxCards |-> i] ELSE <<>>

\* initLevel: one fresh card state for each spec of the level
InitLevelCards(system, level) ==
    LET ids == LevelSpecIds(system, level)
    IN  [i \in 1..Len(ids) |-> _create_card(ids[i])]

-----------------------------------------------------------------------------
(* Letter table, valuations and ciphers: data/letters.csv as the tests pin *)
(* it down, tests/test_levels.py, tests/test_gematria_systems.py           *)

\* A glyph is written by the name of its letter; a final form by the name
\* and "-final" (the slugs of _letter_slug).
LetterNames ==
    <<"alef", "bet", "gimel", "dalet", "he", "vav", "zayin", "chet", "tet",
      "yod", "kaf", "lamed", "mem", "nun", "samekh", "ayin", "pe", "tsadi",
      "qof", "resh", "shin", "tav">>

\* The name column: the display name of each letter
NAMES ==
    <<"Alef", "Bet", "Gimel", "Dalet", "He", "Vav", "Zayin", "Chet", "Tet",
      "Yod", "Kaf", "Lamed", "Mem", "Nun", "Samekh", "Ayin", "Pe", "Tsadi",
      "Qof", "Resh", "Shin", "Tav">>

EXPECTED_STANDARD_VALUES ==
    <<1, 2, 3, 4, 5, 6, 7, 8, 9, 10, 20, 30, 40, 50, 60, 70, 80, 90,
      100, 200, 300, 400>>

\* Final-form glyph to final value
EXPECTED_FINAL_FORMS ==
    [n \in {"kaf-final", "mem-final", "nun-final", "pe-final", "tsadi-final"} |->
        CASE n = "kaf-final" -> 500
          [] n = "mem-final" -> 600
          [] n = "nun-final" -> 700
          [] n = "pe-final" -> 800
          [] n = "tsadi-final" -> 900]

\* The final-form column: the glyph of the row's final form, "" for the 17
\* letters that have none
FinalFormOf(name) ==
    CASE name = "kaf" -> "kaf-final"
      [] name = "mem" -> "mem-final"
      [] name = "nun" -> "nun-final"
      [] name = "pe" -> "pe-final"
      [] name = "tsadi" -> "tsadi-final"
      [] OTHER -> ""

\* The rows csv.DictReader gives; an empty final_value cell is written 0
letter_data ==
    [p \in 1..22 |->
        LET ff == FinalFormOf(LetterNames[p])
        IN  [letter |-> LetterNames[p],
             name |-> NAMES[p],
             position |-> p,
             standard_value |-> EXPECTED_STANDARD_VALUES[p],
             final_form |-> ff,
             final_value |-> IF ff = "" THEN 0 ELSE EXPECTED_FINAL_FORMS[ff]]]

\* The 22 base letters in order
alphabet == [p \in 1..22 |-> letter_data[p].letter]

\* The 5 final-form letters
final_forms ==
    LET rows == SelectSeq(letter_data, LAMBDA row : row.final_form # "")
    IN  [i \in 1..Len(rows) |-> rows[i].final_form]

\* The position of a base letter, 0 when it is none
_position(letter) ==
    LET hits == {p \in 1..22 : letter_data[p].letter = letter}
    IN  IF hits = {} THEN 0
        ELSE letter_data[CHOOSE p \in hits : \A q \in hits : p <= q].position

\* while val >= 10 and val % 10 == 0: val //= 10
RECURSIVE drop_trailing_zeros(_)
drop_trailing_zeros(val) ==
    IF val >= 10 /\ val % 10 = 0 THEN drop_trailing_zeros(val \div 10) ELSE val

\* _compute_value whose gadol branch forgets the final values
_compute_value_gadol_as_base(ch, system) ==
    LET hits == {p \in 1..22 :
                    letter_data[p].letter = ch \/ letter_data[p].final_form = ch}
    IN  IF hits = {} THEN 0
        ELSE LET base_row == letter_data[CHOOSE p \in hits : \A q \in hits : p <= q]
             IN  CASE system = "hechrachi" -> base_row.standard_value
                   [] system = "gadol" -> base_row.standard_value
                   [] system = "katan" -> drop_trailing_zeros(base_row.standard_value)
                   [] system = "siduri" -> base_row.position
                   [] OTHER -> 0

\* The first row whose letter or final form is ch decides; is_final when it
\* matched by its final form.  No row, or a system that is none of the four,
\* gives 0.
_compute_value(ch, system) ==
    LET hits == {p \in 1..22 :
                    letter_data[p].letter = ch \/ letter_data[p].final_form = ch}
    IN  IF hits = {} THEN 0
        ELSE LET base_row == letter_data[CHOOSE p \in hits : \A q \in hits : p <= q]
                 is_final == base_row.letter # ch
             IN  CASE system = "hechrachi" -> base_row.standard_value
                   [] system = "gadol" ->
                        IF is_final /\ base_row.final_value # 0
                        THEN base_row.final_value
                        ELSE base_row.standard_value
                   [] system = "katan" -> drop_trailing_zeros(base_row.standard_value)
                   [] system = "siduri" -> base_row.position
                   [] OTHER -> 0

\* m[row.letter] = letter_data[target_pos - 1].letter, target_pos = 23 - pos
atbash_map ==
    [l \in {letter_data[p].letter : p \in 1..22} |->
        LET pos == _position(l)
            target_pos == 23 - pos
        IN  letter_data[target_pos].letter]

\* target_pos = pos + 11 if pos <= 11 else pos - 11
albam_map ==
    [l \in {letter_data[p].letter : p \in 1..22} |->
        LET pos == _position(l)
            target_pos == IF pos <= 11 THEN pos + 11 ELSE pos - 11
        IN  letter_data[target_pos].letter]

\* alphabet.index(letter), counted from 0
alphabet_index(letter) ==
    (CHOOSE p \in 1..22 : alphabet[p] = letter /\ \A q \in 1..(p - 1) : alphabet[q] # letter) - 1

\* alphabet[(i + 1) % 22] for the letter at index i
avgad_forward(letter) == alphabet[((alphabet_index(letter) + 1) % 22) + 1]

\* avgad reverse that does not shift
avgad_reverse_unshifted(letter) == alphabet[(alphabet_index(letter) % 22) + 1]

\* alphabet[(alphabet.index(fwd) - 1) % 22]
avgad_reverse(letter) == alphabet[((alphabet_index(letter) - 1) % 22) + 1]

-----------------------------------------------------------------------------
(* Card generation: tests/test_levels.py *)

\* name.lower() of a name of the table
lower(name) == LetterNames[CHOOSE p \in 1..22 : NAMES[p] = name]

\* _letter_slug that gives a final form the slug of its base letter
_letter_slug_without_suffix(ch) ==
    LET hits == {p \in 1..22 :
                    letter_data[p].letter = ch \/ letter_data[p].final_form = ch}
    IN  IF hits = {} THEN ch
        ELSE lower(letter_data[CHOOSE p \in hits : \A q \in hits : p <= q].name)

\* The lower-case name of the first row whose letter or final form is ch,
\* with "-final" when it matched by the final form; ch itself when no row
\* matches
_letter_slug(ch) ==
    LET hits == {p \in 1..22 :
                    letter_data[p].letter = ch \/ letter_data[p].final_form = ch}
    IN  IF hits = {} THEN ch
        ELSE LET row == letter_data[CHOOSE p \in hits : \A q \in hits : p <= q]
             IN  IF row.letter = ch THEN lower(row.name)
                 ELSE lower(row.name) \o "-final"

\* _valuation_cards that makes the letter-to-value card only
_valuation_cards_one_direction(letters, system) ==
    [k \in 1..Len(letters) |->
        [id |-> _letter_slug(letters[k]) \o "-to-val",
         type |-> "letter-to-value",
         prompt |-> letters[k],
         answer |-> ToString(_compute_value(letters[k], system))]]

\* Two cards for each letter, in the order of letters
_valuation_cards(letters, system) ==
    [k \in 1..(2 * Len(letters)) |->
        LET letter == letters[(k + 1) \div 2]
            name == _letter_slug(letter)
        IN  IF k % 2 = 1
            THEN [id |-> name \o "-to-val",
                  type |-> "letter-to-value",
                  prompt |-> letter,
                  answer |-> ToString(_compute_value(letter, system))]
            ELSE [id |-> "val-to-" \o name,
                  type |-> "value-to-letter",
                  prompt |-> ToString(_compute_value(letter, system)),
                  answer |-> letter]]

\* _cipher_cards that adds the reverse cards whatever include_reverse says
_cipher_cards_always_reverse(letters, system, include_reverse) ==
    [k \in 1..(2 * Len(letters)) |->
        LET letter == letters[(k + 1) \div 2]
            name == _letter_slug(letter)
        IN  IF k % 2 = 1
            THEN [id |-> "cipher-" \o name, type |-> "cipher-forward",
                  prompt |-> letter, answer |-> letter]
            ELSE [id |-> "cipher-rev-" \o name, type |-> "cipher-reverse",
                  prompt |-> letter, answer |-> letter]]

\* One forward card for each letter, followed by its reverse card when
\* include_reverse; the answer is the placeholder of the source
_cipher_cards(letters, system, include_reverse) ==
    IF include_reverse
    THEN [k \in 1..(2 * Len(letters)) |->
            LET letter == letters[(k + 1) \div 2]
                name == _letter_slug(letter)
            IN  IF k % 2 = 1
                THEN [id |-> "cipher-" \o name, type |-> "cipher-forward",
                      prompt |-> letter, answer |-> letter]
                ELSE [id |-> "cipher-rev-" \o name, type |-> "cipher-reverse",
                      prompt |-> letter, answer |-> letter]]
    ELSE [k \in 1..Len(letters) |->
            [id |-> "cipher-" \o _letter_slug(letters[k]), type |-> "cipher-forward",
             prompt |-> letters[k], answer |-> letters[k]]]

\* The letters of the rows whose position is in lo..hi
letters_of_positions(lo, hi) ==
    LET rows == SelectSeq(letter_data,
                          LAMBDA row : lo <= row.position /\ row.position <= hi)
    IN  [i \in 1..Len(rows) |-> rows[i].letter]

\* level_letters whose last level of a 4-level system leaves the final
\* forms out
level_letters_base_only(system, level) ==
    LET count == _level_count(system)
    IN  IF count = 8
        THEN CASE level = 1 -> letters_of_positions(1, 9)
               [] level = 2 -> letters_of_positions(10, 18)
               [] level = 3 -> letters_of_positions(19, 22)
               [] level = 4 -> final_forms
               [] OTHER -> <<>>
        ELSE IF count = 4
        THEN CASE level = 1 -> SubSeq(alphabet, 1, 9)
               [] level = 2 -> SubSeq(alphabet, 10, 18)
               [] level = 3 -> SubSeq(alphabet, 19, 22) \o final_forms
               [] level = 4 -> alphabet
               [] OTHER -> <<>>
        ELSE CASE level = 1 -> SubSeq(alphabet, 1, 11)
               [] level = 2 -> SubSeq(alphabet, 12, 22)
               [] level = 3 -> alphabet
               [] OTHER -> <<>>

\* The letters the tests hand to the generators for one level
level_letters(system, level) ==
    LET count == _level_count(system)
    IN  IF count = 8
        THEN CASE level = 1 -> letters_of_positions(1, 9)
               [] level = 2 -> letters_of_positions(10, 18)
               [] level = 3 -> letters_of_positions(19, 22)
               [] level = 4 -> final_forms
               [] OTHER -> <<>>
        ELSE IF count = 4
        THEN CASE level = 1 -> SubSeq(alphabet, 1, 9)
               [] level = 2 -> SubSeq(alphabet, 10, 18)
               [] level = 3 -> SubSeq(alphabet, 19, 22) \o final_forms
               [] level = 4 -> alphabet \o final_forms
               [] OTHER -> <<>>
        ELSE CASE level = 1 -> SubSeq(alphabet, 1, 11)
               [] level = 2 -> SubSeq(alphabet, 12, 22)
               [] level = 3 -> alphabet
               [] OTHER -> <<>>

\* Levels.getCards: the specs of one level in their canonical order; a level
\* that is not static has none, and only level 3 of avgad has reverse cards
getCards(system, level) ==
    IF ~_is_static(system, level) THEN <<>>
    ELSE IF _level_count(system) \in {8, 4}
    THEN _valuation_cards(level_letters(system, level), system)
    ELSE _cipher_cards(level_letters(system, level), system,
                       system = "avgad" /\ level = 3)

-----------------------------------------------------------------------------
(* Letter table loader: src/data/gematria.py *)

REQUIRED_COLUMNS ==
    {"letter", "name", "position", "standard_value", "final_form", "final_value"}
EXPECTED_LETTER_COUNT == 22
EXPECTED_FINAL_COUNT == 5

\* The text of a number in a cell: its decimal digits, most significant
\* first; the empty cell is <<>>
RECURSIVE Digits(_)
Digits(n) == IF n < 10 THEN <<n>> ELSE Append(Digits(n \div 10), n % 10)

\* int(text): the number the digits write; int('') raises ValueError, which
\* is -1 here
RECURSIVE int(_)
int(text) ==
    IF text = <<>> THEN -1
    ELSE IF Len(text) = 1 THEN text[1]
    ELSE 10 * int(SubSeq(text, 1, Len(text) - 1)) + text[Len(text)]

\* A row as csv.DictReader reads it from the file: every cell is text
csv_row(row) ==
    [letter |-> row.letter,
     name |-> row.name,
     position |-> Digits(row.position),
     standard_value |-> Digits(row.standard_value),
     final_form |-> row.final_form,
     final_value |-> IF row.final_form = "" THEN <<>> ELSE Digits(row.final_value)]

\* ValueError for a missing column, a row count other than 22, a number of
\* final forms other than 5, or a position or standard value that int()
\* refuses; otherwise the rows with their numeric cells converted (None for
\* an empty final_value is written 0, as in letter_data)
load_letters(table) ==
    IF REQUIRED_COLUMNS \ table.columns # {}
    THEN [raised |-> TRUE, rows |-> <<>>]
    ELSE IF Len(table.rows) # EXPECTED_LETTER_COUNT
    THEN [raised |-> TRUE, rows |-> <<>>]
    ELSE IF Len(SelectSeq(table.rows, LAMBDA r : r.final_form # ""))
                # EXPECTED_FINAL_COUNT
    THEN [raised |-> TRUE, rows |-> <<>>]
    ELSE IF \E k \in 1..Len(table.rows) :
                \/ int(table.rows[k].position) = -1
                \/ int(table.rows[k].standard_value) = -1
    THEN [raised |-> TRUE, rows |-> <<>>]
    ELSE [raised |-> FALSE,
          rows |-> [k \in 1..Len(table.rows) |->
                     [table.rows[k] EXCEPT
                        !.position = int(@),
                        !.standard_value = int(@),
                        !.final_value = IF @ = <<>> THEN 0 ELSE int(@)]]]

-----------------------------------------------------------------------------
(* Numeral encoder: tests/test_gematria_systems.py, TestNumberEncoding *)

VALUES ==
    <<400, 300, 200, 100, 90, 80, 70, 60, 50, 40, 30, 20, 10,
      9, 8, 7, 6, 5, 4, 3, 2, 1>>

\* The string LETTERS, glyph by glyph
LETTERS ==
    <<"tav", "shin", "resh", "qof", "tsadi", "pe", "ayin", "samekh", "nun",
      "mem", "lamed", "kaf", "yod", "tet", "chet", "zayin", "vav", "he",
      "dalet", "gimel", "bet", "alef">>

GERESH == "geresh"
GERSHAYIM == "gershayim"

\* greedy with "if remaining >= val" in place of "while remaining >= val"
RECURSIVE greedy_one_of_each(_, _)
greedy_one_of_each(remaining, i) ==
    IF i > Len(VALUES) THEN <<>>
    ELSE IF remaining >= VALUES[i]
    THEN <<LETTERS[i]>> \o greedy_one_of_each(remaining - VALUES[i], i + 1)
    ELSE greedy_one_of_each(remaining, i + 1)

\* for i, val in enumerate(VALUES): while remaining >= val: append, subtract
RECURSIVE greedy(_, _)
greedy(remaining, i) ==
    IF i > Len(VALUES) THEN <<>>
    ELSE IF remaining >= VALUES[i]
    THEN <<LETTERS[i]>> \o greedy(remaining - VALUES[i], i)
    ELSE greedy(remaining, i + 1)

\* A replace that replaces nothing
replace_nothing(s, old, new) == s

\* s.replace(old, new) for two-glyph old and new: every occurrence, found
\* from the left, occurrences not overlapping
RECURSIVE replace(_, _, _)
replace(s, old, new) ==
    IF Len(s) < 2 THEN s
    ELSE IF s[1] = old[1] /\ s[2] = old[2]
    THEN new \o replace(SubSeq(s, 3, Len(s)), old, new)
    ELSE <<s[1]>> \o replace(Tail(s), old, new)

\* punctuate that puts the gershayim after the last letter
punctuate_at_end(s) ==
    IF Len(s) = 1 THEN s \o <<GERESH>>
    ELSE s \o <<GERSHAYIM>>

\* len(s) == 1: s + GERESH; else s[:-1] + GERSHAYIM + s[-1]
punctuate(s) ==
    IF Len(s) = 1 THEN s \o <<GERESH>>
    ELSE SubSeq(s, 1, Len(s) - 1) \o <<GERSHAYIM>> \o <<s[Len(s)]>>

\* _encode that never reduces by thousands
_encode_keeps_thousands(n, omit_thousands) ==
    IF n = 0 THEN <<>>
    ELSE LET s0 == greedy(n, 1)
             s1 == replace(s0, <<"yod", "he">>, <<"tet", "vav">>)
             s2 == replace(s1, <<"yod", "vav">>, <<"tet", "zayin">>)
         IN  punctuate(s2)

\* The string returned, glyph by glyph; <<>> is the empty string
_encode(n, omit_thousands) ==
    LET m == IF omit_thousands /\ n >= 1000 THEN n % 1000 ELSE n
    IN  IF m = 0 THEN <<>>
        ELSE LET s0 == greedy(m, 1)
                 s1 == replace(s0, <<"yod", "he">>, <<"tet", "vav">>)
                 s2 == replace(s1, <<"yod", "vav">>, <<"tet", "zayin">>)
             IN  punctuate(s2)

-----------------------------------------------------------------------------
(* Progression: tests/test_progression.py *)

_create_state(system_key) ==
    [system |-> system_key,
     currentTier |-> 1,
     tierCount |-> IF system_key \in DOMAIN TIER_COUNTS
                   THEN TIER_COUNTS[system_key] ELSE 0,
     completed |-> FALSE,
     tiers |-> <<>>]

_create_card_progression(card_id, review_count, correct_count, repetitions) ==
    [card_id |-> card_id,
     ease_factor |-> DEFAULT_EASE,
     interval_minutes |-> 1,
     repetitions |-> repetitions,
     next_review |-> FIXED_NEXT_REVIEW,
     last_quality |-> NoQuality,
     review_count |-> review_count,
     correct_count |-> correct_count]

\* _check_mastery without the loop over the cards' review counts
_check_mastery_no_min_reps(cards) ==
    /\ cards # <<>>
    /\ SumReviews(cards) > 0
    /\ 100 * SumCorrect(cards) >= MASTERY_ACCURACY * SumReviews(cards)

\* _check_mastery that takes a collection without cards for mastered
_check_mastery_progression_empty_mastered(cards) ==
    \/ cards = <<>>
    \/ /\ \A i \in 1..Len(cards) : ~(cards[i].review_count < MASTERY_MIN_REPS)
       /\ SumReviews(cards) > 0
       /\ 100 * SumCorrect(cards) >= MASTERY_ACCURACY * SumReviews(cards)

_check_mastery_progression(cards) ==
    /\ cards # <<>>
    /\ \A i \in 1..Len(cards) : ~(cards[i].review_count < MASTERY_MIN_REPS)
    /\ SumReviews(cards) > 0
    /\ 100 * SumCorrect(cards) >= MASTERY_ACCURACY * SumReviews(cards)

\* _try_advance that completes only past the last tier (> for >=)
_try_advance_past_last(st, cards) ==
    IF ~_check_mastery_progression(cards)
    THEN [state |-> st, advanced |-> FALSE, completed |-> FALSE]
    ELSE IF st.currentTier > st.tierCount
    THEN [state |-> [st EXCEPT !.completed = TRUE],
          advanced |-> FALSE, completed |-> TRUE]
    ELSE [state |-> [st EXCEPT !.currentTier = st.currentTier + 1],
          advanced |-> TRUE, completed |-> FALSE]

\* _try_advance that withdraws completed when mastery no longer holds
_try_advance_uncompletes(st, cards) ==
    IF ~_check_mastery_progression(cards)
    THEN [state |-> [st EXCEPT !.completed = FALSE],
          advanced |-> FALSE, completed |-> FALSE]
    ELSE IF st.currentTier >= st.tierCount
    THEN [state |-> [st EXCEPT !.completed = TRUE],
          advanced |-> FALSE, completed |-> TRUE]
    ELSE [state |-> [st EXCEPT !.currentTier = st.currentTier + 1],
          advanced |-> TRUE, completed |-> FALSE]

\* _try_advance without the mastery check
_try_advance_ignores_mastery(st, cards) ==
    IF st.currentTier >= st.tierCount
    THEN [state |-> [st EXCEPT !.completed = TRUE],
          advanced |-> FALSE, completed |-> TRUE]
    ELSE [state |-> [st EXCEPT !.currentTier = st.currentTier + 1],
          advanced |-> TRUE, completed |-> FALSE]

\* _try_advance that goes on to the last tier and completes in one
\* evaluation, from the tier before the last
_try_advance_completes_early(st, cards) ==
    IF ~_check_mastery_progression(cards)
    THEN [state |-> st, advanced |-> FALSE, completed |-> FALSE]
    ELSE IF st.currentTier >= st.tierCount
    THEN [state |-> [st EXCEPT !.completed = TRUE],
          advanced |-> FALSE, completed |-> TRUE]
    ELSE IF st.currentTier + 1 = st.tierCount
    THEN [state |-> [st EXCEPT !.currentTier = st.currentTier + 1,
                               !.completed = TRUE],
          advanced |-> TRUE, completed |-> TRUE]
    ELSE [state |-> [st EXCEPT !.currentTier = st.currentTier + 1],
          advanced |-> TRUE, completed |-> FALSE]

\* _try_advance that goes back to tier 1 from the last tier where it
\* should complete
_try_advance_wraps_around(st, cards) ==
    IF ~_check_mastery_progression(cards)
    THEN [state |-> st, advanced |-> FALSE, completed |-> FALSE]
    ELSE IF st.currentTier >= st.tierCount
    THEN [state |-> [st EXCEPT !.currentTier = 1],
          advanced |-> TRUE, completed |-> FALSE]
    ELSE [state |-> [st EXCEPT !.currentTier = st.currentTier + 1],
          advanced |-> TRUE, completed |-> FALSE]

\* The state after the call and the (advanced, completed) it returns
_try_advance(st, cards) ==
    IF ~_check_mastery_progression(cards)
    THEN [state |-> st, advanced |-> FALSE, completed |-> FALSE]
    ELSE IF st.currentTier >= st.tierCount
    THEN [state |-> [st EXCEPT !.completed = TRUE],
          advanced |-> FALSE, completed |-> TRUE]
    ELSE [state |-> [st EXCEPT !.currentTier = st.currentTier + 1],
          advanced |-> TRUE, completed |-> FALSE]

_make_mastered_cards(count) ==
    [i \in 1..count |-> _create_card_progression(i, 4, 4, 0)]

_make_unmastered_cards(count) ==
    [i \in 1..count |-> _create_card_progression(i, 1, 1, 0)]

-----------------------------------------------------------------------------
(* The state of the model and what each specification leaves alone *)

NoArgs == [none |-> TRUE]
NoReturn == [none |-> TRUE]

IdleScheduler ==
    /\ sm2 = <<0, 1, DEFAULT_EASE>>
    /\ card = _create_card(1)

\* The cards of the tier the learner is in
TierPopulated == state.currentTier \in DOMAIN state.tiers
CurrentCards == state.tiers[state.currentTier]

\* Review events recorded in the cards the state holds
TotalReviews ==
    LET ts == DOMAIN state.tiers
        S[n \in 0..8] ==
            IF n = 0 THEN 0
            ELSE S[n - 1] + (IF n \in ts THEN SumReviews(state.tiers[n]) ELSE 0)
    IN  S[8]

-----------------------------------------------------------------------------
(* Spec: one system's progression as the controller drives it *)

Init ==
    /\ \E s \in Systems : state = _create_state(s)
    /\ op = "create_state"
    /\ args = NoArgs
    /\ ret = NoReturn
    /\ calls = 0
    /\ IdleScheduler

\* The tier the learner enters is populated once, with fresh cards
InitLevel ==
    /\ ~TierPopulated
    /\ state' = [state EXCEPT !.tiers =
                    state.tiers @@
                    (state.currentTier :> InitLevelCards(state.system, state.currentTier))]
    /\ op' = "init_level"
    /\ args' = NoArgs
    /\ ret' = NoReturn
    /\ UNCHANGED <<calls, sm2, card>>

\* The learner answers card i of the current tier with a quality
Review(i, quality) ==
    /\ TierPopulated
    /\ i \in 1..Len(CurrentCards)
    /\ TotalReviews < MaxReviews
    /\ state' = [state EXCEPT !.tiers[state.currentTier] =
                    replace_card(CurrentCards, _sm2_review(CurrentCards[i], quality))]
    /\ op' = "review"
    /\ args' = [card_id |-> CurrentCards[i].card_id, quality |-> quality]
    /\ ret' = NoReturn
    /\ UNCHANGED <<calls, sm2, card>>

\* Mastery of the current tier is evaluated
TryAdvance ==
    /\ TierPopulated
    /\ LET r == _try_advance(state, CurrentCards)
       IN  /\ state' = r.state
           /\ ret' = [advanced |-> r.advanced, completed |-> r.completed]
    /\ op' = "try_advance"
    /\ args' = [cards |-> CurrentCards]
    /\ UNCHANGED <<calls, sm2, card>>

\* A reset that goes back to tier 1 but keeps the card states
ResetKeepsCards ==
    /\ state' = [state EXCEPT !.currentTier = 1, !.completed = FALSE]
    /\ op' = "reset"
    /\ args' = [before |-> state]
    /\ ret' = NoReturn
    /\ UNCHANGED <<calls, sm2, card>>

\* The progression of the system is thrown away and made afresh; args keeps
\* the state that was thrown away
Reset ==
    /\ state' = _create_state(state.system)
    /\ op' = "reset"
    /\ args' = [before |-> state]
    /\ ret' = NoReturn
    /\ UNCHANGED <<calls, sm2, card>>

Next ==
    \/ InitLevel
    \/ \E i \in 1..MaxCards, quality \in ReviewQualities : Review(i, quality)
    \/ TryAdvance
    \/ Reset

Spec == Init /\ [][Next]_vars

\* The controller started on any name that _create_state takes: it takes
\* every string, a name outside TIER_COUNTS included
OpenInit ==
    /\ \E s \in SystemInputs : state = _create_state(s)
    /\ op = "create_state"
    /\ args = NoArgs
    /\ ret = NoReturn
    /\ calls = 0
    /\ IdleScheduler

OpenSpec == OpenInit /\ [][Next]_vars

-----------------------------------------------------------------------------
(* AdvSpec: _try_advance called directly, as the progression tests call it *)

\* The collections the tests hand to _try_advance, and one card that is
\* short of the accuracy alone (3 correct of 4)
TestCards ==
    {_make_mastered_cards(n) : n \in 1..MaxSelCards}
        \cup {_make_unmastered_cards(n) : n \in 0..MaxSelCards}
        \cup {<<_create_card_progression(1, 4, 3, 0)>>}

CallTryAdvance(cards) ==
    /\ _check_mastery_progression(cards) => calls < MaxCalls
    /\ LET r == _try_advance(state, cards)
       IN  /\ state' = r.state
           /\ ret' = [advanced |-> r.advanced, completed |-> r.completed]
    /\ calls' = IF _check_mastery_progression(cards) THEN calls + 1 ELSE calls
    /\ op' = "try_advance"
    /\ args' = [cards |-> cards]
    /\ UNCHANGED <<sm2, card>>

CallCreateState ==
    /\ state' = _create_state(state.system)
    /\ calls' = 0
    /\ op' = "create_state"
    /\ args' = NoArgs
    /\ ret' = NoReturn
    /\ UNCHANGED <<sm2, card>>

AdvNext ==
    \/ \E cards \in TestCards : CallTryAdvance(cards)
    \/ CallCreateState

AdvSpec == Init /\ [][AdvNext]_vars

-----------------------------------------------------------------------------
(* SelSpec: select_next on drawn collections *)

\* (review_count, correct_count) of the cards handed to select_next: never
\* reviewed, short of the minimum, mastered, and short of the accuracy
SelCounts == {<<0, 0>>, <<2, 2>>, <<3, 3>>, <<4, 3>>}

\* The clock when select_next is called
SelNow == FIXED_NEXT_REVIEW

SelCardChoices ==
    {<<d, rc>> : d \in (SelNow - MaxOverdue)..(SelNow + MaxOverdue), rc \in SelCounts}

\* Collections of n cards in the input order, card k carrying id k
SelCards(n) ==
    {[k \in 1..n |-> _create_card_selection(k, f[k][1], f[k][2][1], f[k][2][2], 0)] :
        f \in [1..n -> SelCardChoices]}

Injective(f) == \A a, b \in DOMAIN f : f[a] = f[b] => a = b

\* The specs in any order; every card was made from one of them.  With no
\* cards at all, the specs may still be there.
SelSpecsFor(cards) ==
    IF cards = <<>> THEN {<<>>, <<_make_spec(1)>>}
    ELSE {[j \in 1..Len(cards) |-> _make_spec(f[j])] :
            f \in {g \in [1..Len(cards) -> 1..Len(cards)] : Injective(g)}}

\* What the clock can read over the 2n readings of one call: the first
\* reading is `now`, the clock never goes back, and it ticks at most once
\* while the call runs
ClockReads(n, now) ==
    {r \in [1..(2 * n) -> {now, now + 1}] :
        /\ n > 0 => r[1] = now
        /\ \A k \in 1..(2 * n - 1) : r[k] <= r[k + 1]}

SelInit ==
    /\ \E n \in 0..MaxSelCards :
       \E cards \in SelCards(n) :
       \E specs \in SelSpecsFor(cards) :
       \E reads \in ClockReads(Len(cards), SelNow) :
            args = [cards |-> cards, specs |-> specs, now |-> SelNow, reads |-> reads]
    /\ op = "input"
    /\ ret = NoReturn
    /\ state = _create_state("hechrachi")
    /\ calls = 0
    /\ IdleScheduler

Select ==
    /\ op = "input"
    /\ ret' = select_next(args.cards, args.specs, args.reads)
    /\ op' = "select"
    /\ UNCHANGED <<state, args, calls, sm2, card>>

SelNext == Select

SelSpec == SelInit /\ [][SelNext]_vars

-----------------------------------------------------------------------------
(* MasterySpec: the mastery rule on drawn collections *)

\* Collections of n cards with every (review_count, correct_count) up to MaxCount
MasteryCards(n) ==
    {[k \in 1..n |-> _create_card_progression(k, f[k][1], f[k][2], 0)] :
        f \in [1..n -> {<<rc, cc>> \in (0..MaxCount) \X (0..MaxCount) : cc <= rc}]}

MasteryInit ==
    /\ \E n \in 0..MaxSelCards :
       \E cards \in MasteryCards(n) : args = [cards |-> cards]
    /\ op = "input"
    /\ ret = NoReturn
    /\ state = _create_state("hechrachi")
    /\ calls = 0
    /\ IdleScheduler

CheckMastery ==
    /\ op = "input"
    /\ ret' = [card_state |-> _check_mastery(args.cards),
               progression |-> _check_mastery_progression(args.cards),
               selection |-> _check_mastery_selection(args.cards)]
    /\ op' = "check_mastery"
    /\ UNCHANGED <<state, args, calls, sm2, card>>

MasteryNext == CheckMastery

MasterySpec == MasteryInit /\ [][MasteryNext]_vars

-----------------------------------------------------------------------------
(* SchedSpec: one card under review, both schedulers *)

\* (reps, interval, ef) the scheduler tests start sm2_review from
SchedStarts == {0, 1, 2, 5} \X {1, 6, 100} \X {MIN_EASE, 196, DEFAULT_EASE}

SchedInit ==
    /\ sm2 \in SchedStarts
    /\ card = _create_card(1)
    /\ op = "input"
    /\ args = NoArgs
    /\ ret = NoReturn
    /\ state = _create_state("hechrachi")
    /\ calls = 0

\* One answer, given to both schedulers
SchedReview(quality) ==
    /\ card.review_count < MaxSchedSteps
    /\ sm2' = sm2_review(sm2[1], sm2[2], sm2[3], quality)
    /\ card' = _sm2_review(card, quality)
    /\ op' = "sm2_review"
    /\ args' = [reps |-> sm2[1], interval |-> sm2[2], ef |-> sm2[3],
                card |-> card, quality |-> quality]
    /\ ret' = NoReturn
    /\ UNCHANGED <<state, calls>>

SchedNext == \E quality \in Qualities : SchedReview(quality)

SchedSpec == SchedInit /\ [][SchedNext]_vars

-----------------------------------------------------------------------------
(* LetterSpec: a valuation or a cipher applied to one glyph *)

\* The 27 glyphs of the table, the empty string and a glyph that is no
\* Hebrew letter
LetterInputs ==
    {alphabet[p] : p \in 1..22}
        \cup {final_forms[i] : i \in 1..Len(final_forms)}
        \cup {"", "x"}


LetterInit ==
    /\ \E ch \in LetterInputs, system \in SystemInputs :
            args = [ch |-> ch, system |-> system]
    /\ op = "input"
    /\ ret = NoReturn
    /\ state = _create_state("hechrachi")
    /\ calls = 0
    /\ IdleScheduler

ComputeValue ==
    /\ op = "input"
    /\ ret' = _compute_value(args.ch, args.system)
    /\ op' = "value"
    /\ UNCHANGED <<state, args, calls, sm2, card>>

\* The cipher of a base letter and the cipher of that: the tests look the
\* maps up for the 22 letters and for what they map to
Atbash ==
    /\ op = "input"
    /\ args.system = "atbash"
    /\ args.ch \in DOMAIN atbash_map
    /\ ret' = [out |-> atbash_map[args.ch],
               again |-> atbash_map[atbash_map[args.ch]]]
    /\ op' = "atbash"
    /\ UNCHANGED <<state, args, calls, sm2, card>>

Albam ==
    /\ op = "input"
    /\ args.system = "albam"
    /\ args.ch \in DOMAIN albam_map
    /\ ret' = [out |-> albam_map[args.ch],
               again |-> albam_map[albam_map[args.ch]]]
    /\ op' = "albam"
    /\ UNCHANGED <<state, args, calls, sm2, card>>

\* Forward, then reverse of the forward letter
Avgad ==
    /\ op = "input"
    /\ args.system = "avgad"
    /\ args.ch \in {alphabet[p] : p \in 1..22}
    /\ ret' = [out |-> avgad_forward(args.ch),
               again |-> avgad_reverse(avgad_forward(args.ch))]
    /\ op' = "avgad"
    /\ UNCHANGED <<state, args, calls, sm2, card>>

LetterNext ==
    \/ ComputeValue
    \/ Atbash
    \/ Albam
    \/ Avgad

LetterSpec == LetterInit /\ [][LetterNext]_vars

-----------------------------------------------------------------------------
(* EncSpec: one number encoded *)

\* Numbers of a thousand and more: round thousands, years, and numbers
\* whose remainder is 15 or 16
EncodeLarge == {1000, 1001, 1015, 1016, 2000, 5015, 5784, 6000}

EncInit ==
    /\ \E n \in (0..MaxEncode) \cup EncodeLarge, omit_thousands \in BOOLEAN :
            args = [n |-> n, omit_thousands |-> omit_thousands]
    /\ op = "input"
    /\ ret = NoReturn
    /\ state = _create_state("hechrachi")
    /\ calls = 0
    /\ IdleScheduler

Encode ==
    /\ op = "input"
    /\ ret' = _encode(args.n, args.omit_thousands)
    /\ op' = "encode"
    /\ UNCHANGED <<state, args, calls, sm2, card>>

EncNext == Encode

EncSpec == EncInit /\ [][EncNext]_vars

-----------------------------------------------------------------------------
(* CatalogSpec: the specs of one level generated, then the level populated *)
(* by independent fresh sessions                                           *)

\* Shuffles that draws every position anew, so a spec may come twice
ShufflesWithReplacement(n) ==
    LET m == IF n < MaxShuffled THEN n ELSE MaxShuffled
    IN  {[k \in 1..n |-> IF k <= m THEN f[k] ELSE k] : f \in [1..m -> 1..m]}

\* The orders a fresh population may give n specs: every permutation of the
\* first MaxShuffled of them, the others staying in place
Shuffles(n) ==
    LET m == IF n < MaxShuffled THEN n ELSE MaxShuffled
    IN  {[k \in 1..n |-> IF k <= m THEN f[k] ELSE k] :
            f \in {g \in [1..m -> 1..m] : Injective(g)}}

CatInit ==
    /\ \E system \in Systems :
       \E level \in 1.._level_count(system) :
            args = [system |-> system, level |-> level]
    /\ op = "input"
    /\ ret = NoReturn
    /\ state = _create_state("hechrachi")
    /\ calls = 0
    /\ IdleScheduler

GetCards ==
    /\ op = "input"
    /\ ret' = [static |-> _is_static(args.system, args.level),
               specs |-> getCards(args.system, args.level),
               orders |-> <<>>]
    /\ op' = "get_cards"
    /\ UNCHANGED <<state, args, calls, sm2, card>>

\* A fresh session populates the level: the ids of its specs in the order
\* in which new cards will be introduced
EnsureLevelCards ==
    /\ op \in {"get_cards", "ensure_level_cards"}
    /\ Len(ret.orders) < MaxSessions
    /\ \E f \in Shuffles(Len(ret.specs)) :
            ret' = [ret EXCEPT !.orders =
                        Append(@, [k \in 1..Len(ret.specs) |-> ret.specs[f[k]].id])]
    /\ op' = "ensure_level_cards"
    /\ UNCHANGED <<state, args, calls, sm2, card>>

CatNext ==
    \/ GetCards
    \/ EnsureLevelCards

CatalogSpec == CatInit /\ [][CatNext]_vars

-----------------------------------------------------------------------------
(* CollectionSpec: the cards of one tier, reviewed one at a time *)

\* initLevel on n specs, then reviews: ret holds the collection, args the
\* review just made (the card handed to _sm2_review and the collection
\* before the replacement), card the state _sm2_review returned
CollInit ==
    /\ \E n \in 1..MaxCollCards :
            ret = [cards |-> [i \in 1..n |-> _create_card(i)]]
    /\ op = "init_level"
    /\ args = NoArgs
    /\ state = _create_state("hechrachi")
    /\ calls = 0
    /\ IdleScheduler

CollReview(i, quality) ==
    /\ i \in 1..Len(ret.cards)
    /\ SumReviews(ret.cards) < MaxCollReviews
    /\ LET updated == _sm2_review(ret.cards[i], quality)
       IN  /\ card' = updated
           /\ ret' = [cards |-> replace_card(ret.cards, updated)]
    /\ args' = [index |-> i, quality |-> quality,
                given |-> ret.cards[i], before |-> ret.cards]
    /\ op' = "review"
    /\ UNCHANGED <<state, calls, sm2>>

CollNext ==
    \E i \in 1..MaxCollCards, quality \in Qualities : CollReview(i, quality)

CollectionSpec == CollInit /\ [][CollNext]_vars

-----------------------------------------------------------------------------
(* FreshSpec: select_next on a tier that was just populated *)

\* What the clock reads at the n calls of _create_card, each of which takes
\* its default next_review from datetime.now(): the clock starts at `now`
\* and goes on by at most one tick from one call to the next
CreationReads(n, now) ==
    {r \in [1..n -> now..(now + n - 1)] :
        /\ r[1] = now
        /\ \A k \in 1..(n - 1) : r[k + 1] \in {r[k], r[k] + 1}}

\* n cards never reviewed, created one after the other in any order of
\* their ids with the default next_review, the specs in the order of the
\* ids; select_next is called when the last card has been created
FreshInit ==
    /\ \E n \in 1..MaxFreshCards :
       \E f \in {g \in [1..n -> 1..n] : Injective(g)} :
       \E created \in CreationReads(n, FIXED_NEXT_REVIEW) :
       \E now \in {created[n], created[n] + 1} :
       \E reads \in ClockReads(n, now) :
            args = [cards |-> [k \in 1..n |->
                                _create_card_selection(f[k], created[k], 0, 0, 0)],
                    specs |-> [j \in 1..n |-> _make_spec(j)],
                    now |-> now,
                    reads |-> reads]
    /\ op = "input"
    /\ ret = NoReturn
    /\ state = _create_state("hechrachi")
    /\ calls = 0
    /\ IdleScheduler

FreshSpec == FreshInit /\ [][SelNext]_vars

-----------------------------------------------------------------------------
(* LoadSpec: load_letters on the letter table and on malformed tables *)

\* letters.csv as the tests pin it down
letters_csv == [columns |-> REQUIRED_COLUMNS,
                rows |-> [p \in 1..22 |-> csv_row(letter_data[p])]]

\* The tables handed to load_letters: the real one; one column missing;
\* rows missing or repeated; a final form missing or added; the positions
\* of two rows exchanged; one position cell empty, 0, 23 or that of the
\* next row
Tables ==
    LET good == letters_csv
        rows == good.rows
    IN  {good}
        \cup {[good EXCEPT !.columns = @ \ {c}] : c \in REQUIRED_COLUMNS}
        \cup {[good EXCEPT !.rows = SubSeq(rows, 1, 22 - k)] : k \in 1..MaxDropped}
        \cup {[good EXCEPT !.rows = rows \o SubSeq(rows, 1, k)] : k \in 1..MaxDropped}
        \cup {[good EXCEPT !.rows[p].final_form = "", !.rows[p].final_value = <<>>] :
                p \in {q \in 1..22 : rows[q].final_form # ""}}
        \cup {[good EXCEPT !.rows[1].final_form = "alef-final",
                           !.rows[1].final_value = Digits(1000)]}
        \cup {[good EXCEPT !.rows[i].position = rows[j].position,
                           !.rows[j].position = rows[i].position] :
                i \in 1..22, j \in 1..22}
        \cup UNION {{[good EXCEPT !.rows[i].position = text] :
                        text \in {<<>>, Digits(0), Digits(23), Digits((i % 22) + 1)}} :
                     i \in 1..22}

LoadInit ==
    /\ \E table \in Tables : args = [table |-> table]
    /\ op = "input"
    /\ ret = NoReturn
    /\ state = _create_state("hechrachi")
    /\ calls = 0
    /\ IdleScheduler

LoadLetters ==
    /\ op = "input"
    /\ ret' = load_letters(args.table)
    /\ op' = "load_letters"
    /\ UNCHANGED <<state, args, calls, sm2, card>>

LoadNext == LoadLetters

LoadSpec == LoadInit /\ [][LoadNext]_vars

-----------------------------------------------------------------------------
(* LiveSpec: the session loop of the controller on a 3-tier or 4-tier      *)
(* system: select a card, review it, evaluate mastery                      *)

\* In this specification the clock counts minutes and reads 0 at the
\* beginning of every turn of the loop: the timestamps of the cards are kept
\* relative to it.  calls counts the failed answers, and the state keeps the
\* cards of the tier being drilled (the loop reads no other tier).

\* The timestamps of the cards as seen d minutes later
Later(cards, d) ==
    [i \in 1..Len(cards) |-> [cards[i] EXCEPT !.next_review = @ - d]]

\* The systems whose tiers all have cards
LiveSystems == {s \in Systems : TIER_COUNTS[s] \in {3, 4}}

\* The specs of a tier, and fresh cards for them, created at `now`
LiveSpecs == [j \in 1..MaxLiveCards |-> _make_spec(j)]
LiveCards(now) ==
    [i \in 1..MaxLiveCards |-> _create_card_selection(i, now, 0, 0, 0)]

\* reviewCard: the review of the card state, next_review placed one new
\* interval after now
reviewCard(c, quality, now) ==
    LET updated == _sm2_review(c, quality)
    IN  [updated EXCEPT !.next_review = now + updated.interval_minutes]

LiveInit ==
    /\ \E s \in LiveSystems :
            state = [_create_state(s) EXCEPT !.tiers = (1 :> LiveCards(0))]
    /\ args = NoArgs
    /\ op = "init_level"
    /\ ret = NoReturn
    /\ calls = 0
    /\ IdleScheduler

\* One turn of the loop: select; if a card is returned, the learner answers
\* it with `quality` and the card is replaced by its reviewed state; mastery
\* is evaluated; on an advance the next tier is populated.  `elapsed`
\* minutes pass before the next turn.
Drill(quality, reads, elapsed) ==
    /\ ~state.completed
    /\ quality < 3 => calls < MaxFailures
    /\ \E sel \in {select_next(CurrentCards, LiveSpecs, reads)} :
       \E end \in {reads[2 * Len(CurrentCards)]} :
       \E after \in {IF sel.type = "card"
                     THEN replace_card(CurrentCards,
                                       reviewCard(sel.card, quality, end))
                     ELSE CurrentCards} :
       \E r \in {_try_advance(state, after)} :
       \E kept \in {IF r.advanced THEN LiveCards(end) ELSE after} :
            /\ state' = [r.state EXCEPT !.tiers =
                            (r.state.currentTier :> Later(kept, end + elapsed))]
            /\ ret' = [type |-> sel.type, advanced |-> r.advanced,
                       completed |-> r.completed]
            /\ calls' = IF sel.type = "card" /\ quality < 3
                        THEN calls + 1 ELSE calls
    /\ op' = "drill"
    /\ UNCHANGED <<args, sm2, card>>

LiveNext ==
    \E quality \in ReviewQualities, elapsed \in {0, MaxElapsed} :
    \E reads \in ClockReads(MaxLiveCards, 0) :
        Drill(quality, reads, elapsed)

\* The loop keeps running
LiveSpec == LiveInit /\ [][LiveNext]_vars /\ WF_vars(LiveNext)

-----------------------------------------------------------------------------
(* LadderSpec: the controller on an 8-tier system, with enough reviews to  *)
(* master its four static tiers                                            *)

LadderSystems == {s \in Systems : TIER_COUNTS[s] = 8}

LadderInit ==
    /\ \E s \in LadderSystems : state = _create_state(s)
    /\ op = "create_state"
    /\ args = NoArgs
    /\ ret = NoReturn
    /\ calls = 0
    /\ IdleScheduler

\* The learner answers card i of the current tier with a quality
LadderReview(i, quality) ==
    /\ TierPopulated
    /\ i \in 1..Len(CurrentCards)
    /\ TotalReviews < MaxLadderReviews
    /\ state' = [state EXCEPT !.tiers[state.currentTier] =
                    replace_card(CurrentCards, _sm2_review(CurrentCards[i], quality))]
    /\ op' = "review"
    /\ args' = [card_id |-> CurrentCards[i].card_id, quality |-> quality]
    /\ ret' = NoReturn
    /\ UNCHANGED <<calls, sm2, card>>

\* The controller asks for the next drill of the current tier; the clock
\* reads are those of the select call
LadderSelect ==
    /\ TierPopulated
    /\ \E reads \in ClockReads(Len(CurrentCards), FIXED_NEXT_REVIEW) :
        LET ids == LevelSpecIds(state.system, state.currentTier)
            specs == [j \in 1..Len(ids) |-> _make_spec(ids[j])]
        IN  ret' = select_next(CurrentCards, specs, reads)
    /\ op' = "select"
    /\ args' = NoArgs
    /\ UNCHANGED <<state, calls, sm2, card>>

LadderNext ==
    \/ InitLevel
    \/ \E i \in 1..MaxCards, quality \in ReviewQualities : LadderReview(i, quality)
    \/ LadderSelect
    \/ TryAdvance
    \/ Reset

LadderSpec == LadderInit /\ [][LadderNext]_vars

-----------------------------------------------------------------------------
(* Claims *)

\* C1 (AdvSpec).  From the state create_state makes, with N the system's tier
\* count: after k <= N-1 try_advance calls with mastered cards the tier is
\* k+1 and completed is false, and each such call returned (advanced=true,
\* completed=false); after the N-th the tier is still N, completed is true,
\* and the call returned (advanced=false, completed=true).
C1_AdvanceToCompletion ==
    LET N == TIER_COUNTS[state.system]
        mastered_call == op = "try_advance" /\ _check_mastery_progression(args.cards)
    IN  /\ calls <= N - 1 =>
            /\ state.currentTier = calls + 1
            /\ ~state.completed
            /\ mastered_call => ret = [advanced |-> TRUE, completed |-> FALSE]
        /\ calls = N =>
            /\ state.currentTier = N
            /\ state.completed
            /\ mastered_call => ret = [advanced |-> FALSE, completed |-> TRUE]

\* An 8-tier system completed by its 8th mastered call
C1_Witness ==
    /\ state.system = "hechrachi"
    /\ calls = 8
    /\ op = "try_advance"
    /\ ret = [advanced |-> FALSE, completed |-> TRUE]
    /\ state.completed /\ state.currentTier = 8

\* C2 (Spec).  Once completed is true, a mastery evaluation leaves the whole
\* state (currentTier, completed, tierCount, tiers) as it was, and no step
\* other than a reset makes completed false again.
C2_CompletedAbsorbing ==
    [][state.completed =>
          /\ op' = "try_advance" => state' = state
          /\ op' # "reset" => state'.completed]_vars

\* A mastery evaluation made while completed, on cards that no longer
\* satisfy mastery
C2_Witness ==
    /\ state.completed
    /\ op = "try_advance"
    /\ ~_check_mastery_progression(args.cards)

\* C3 as claimed (Spec): completed implies currentTier = tierCount and the
\* cards of that tier satisfy mastery.
C3_CompletedImpliesMastery ==
    state.completed =>
        /\ state.currentTier = state.tierCount
        /\ TierPopulated
        /\ _check_mastery(CurrentCards)

\* C3 as amended (Spec): completed implies currentTier = tierCount and the
\* tier holds cards, each reviewed at least MASTERY_MIN_REPS times (the tier
\* satisfied mastery when completed was set; a later failed review can take
\* its accuracy below the threshold).
C3_CompletedImpliesLastTier ==
    state.completed =>
        /\ state.currentTier = state.tierCount
        /\ TierPopulated
        /\ CurrentCards # <<>>
        /\ \A i \in 1..Len(CurrentCards) :
                CurrentCards[i].review_count >= MASTERY_MIN_REPS

\* A completed progression whose last tier no longer satisfies mastery
C3_Witness ==
    /\ state.completed
    /\ TierPopulated
    /\ ~_check_mastery(CurrentCards)
    /\ op = "review"

\* C4 (MasterySpec).  The mastery rule is true exactly when the collection is
\* non-empty, every card has review_count >= 3 and the summed correct_count
\* is at least 0.8 of the summed review_count (4 of 5 passes, 3 of 4 fails).
C4_MasteryRule ==
    op = "check_mastery" =>
        LET cards == args.cards
            claimed ==
                /\ Len(cards) > 0
                /\ \A i \in 1..Len(cards) : cards[i].review_count >= 3
                /\ 10 * SumCorrect(cards) >= 8 * SumReviews(cards)
        IN  /\ ret.card_state = claimed
            /\ ret.progression = claimed
            /\ ret.selection = claimed
            /\ cards = <<>> => ~ret.card_state
            /\ (Len(cards) = 1 /\ cards[1].review_count = 5
                    /\ cards[1].correct_count = 4) => ret.card_state
            /\ (Len(cards) = 1 /\ cards[1].review_count = 4
                    /\ cards[1].correct_count = 3) => ~ret.card_state

\* One card with 4 correct of 5 reviews, found mastered
C4_Witness ==
    /\ op = "check_mastery"
    /\ Len(args.cards) = 1
    /\ args.cards[1].review_count = 5
    /\ args.cards[1].correct_count = 4
    /\ ret.card_state

\* What the claims call overdue: now - next_review, now being the clock when
\* select was called
ClaimOverdue(c) == args.now - c.next_review

\* The first card, in input order, among those of largest overdue
FirstOfLargestOverdue(cards) ==
    CHOOSE i \in 1..Len(cards) :
        /\ \A j \in 1..Len(cards) : ClaimOverdue(cards[j]) <= ClaimOverdue(cards[i])
        /\ \A j \in 1..(i - 1) : ClaimOverdue(cards[j]) < ClaimOverdue(cards[i])

SomeOverdue(cards) == \E i \in 1..Len(cards) : ClaimOverdue(cards[i]) > 0
SomeNew(cards) == \E i \in 1..Len(cards) : cards[i].review_count = 0

\* C5 as claimed (SelSpec): when some card has overdue > 0, select returns
\* type=card with the card of largest overdue, the first in input order on a tie.
C5_MostOverdueFirst ==
    (op = "select" /\ SomeOverdue(args.cards)) =>
        /\ ret.type = "card"
        /\ ret.card = args.cards[FirstOfLargestOverdue(args.cards)]

\* C6 as claimed (SelSpec): when no card has overdue > 0 and some card was
\* never reviewed, select returns the first spec, in the order of specs,
\* whose card has review_count = 0, with that card.
C6_NewCardInSpecOrder ==
    (op = "select" /\ ~SomeOverdue(args.cards) /\ SomeNew(args.cards)) =>
        LET cards == args.cards
            specs == args.specs
            isNew(j) == \E i \in 1..Len(cards) :
                            cards[i].card_id = specs[j].id /\ cards[i].review_count = 0
            first == CHOOSE j \in 1..Len(specs) :
                            isNew(j) /\ \A k \in 1..(j - 1) : ~isNew(k)
        IN  /\ ret.type = "card"
            /\ ret.spec = specs[first]
            /\ ret.card.card_id = specs[first].id

\* C7 as claimed (SelSpec): select returns type=advance, with no card and no
\* spec, exactly when no card has overdue > 0, none is never-reviewed and
\* mastery holds.
C7_AdvanceIff ==
    op = "select" =>
        /\ ret.type = "advance" <=>
                /\ ~SomeOverdue(args.cards)
                /\ ~SomeNew(args.cards)
                /\ _check_mastery_selection(args.cards)
        /\ ret.type = "advance" => ret.card = None /\ ret.spec = None

\* C8 as claimed (SelSpec): with cards, none overdue, none never-reviewed and
\* no mastery, select returns the card due soonest, the first in input
\* order on a tie.
C8_SoonestDue ==
    (/\ op = "select"
     /\ args.cards # <<>>
     /\ ~SomeOverdue(args.cards)
     /\ ~SomeNew(args.cards)
     /\ ~_check_mastery_selection(args.cards)) =>
        /\ ret.type = "card"
        /\ ret.card = args.cards[FirstOfLargestOverdue(args.cards)]

\* C9 (SelSpec).  select returns a result on every input: type=review with no
\* card and no spec when cards is empty, whatever the specs, and type=card
\* or type=advance when it is not.
C9_ReviewOnlyWhenEmpty ==
    op = "select" =>
        /\ ret.type \in {"card", "advance", "review"}
        /\ args.cards = <<>> => ret = [type |-> "review", card |-> None, spec |-> None]
        /\ args.cards # <<>> => ret.type \in {"card", "advance"}

\* No cards, one spec, type=review
C9_Witness ==
    /\ op = "select"
    /\ args.cards = <<>>
    /\ args.specs # <<>>
    /\ ret.type = "review"

\* C10 (SchedSpec).  A review with quality < 3 sets repetitions to 0 and the
\* interval to 1, in both schedulers, whatever the repetitions, interval,
\* ease and history before it.
C10_FailureResets ==
    (op = "sm2_review" /\ args.quality < 3) =>
        /\ sm2[1] = 0 /\ sm2[2] = 1
        /\ card.repetitions = 0 /\ card.interval_minutes = 1

\* A failure after a run of successes: 5 repetitions and interval 100 in
\* one scheduler, three repetitions and an interval above 10 in the other
C10_Witness ==
    /\ op = "sm2_review"
    /\ args.quality = QUALITY_WRONG
    /\ args.reps >= 5 /\ args.interval >= 100
    /\ args.card.repetitions >= 3 /\ args.card.interval_minutes > 10
    /\ sm2[1] = 0 /\ card.repetitions = 0

\* The ease deltas as the claims state them, in hundredths: +0.10 for
\* quality 5, 0 for quality 4, -0.14 for quality 3, -0.54 for quality 1
ClaimedDelta(q) ==
    CASE q = 5 -> 10
      [] q = 4 -> 0
      [] q = 3 -> -14
      [] q = 1 -> -54

\* C11 (SchedSpec).  A review with quality >= 3 sets the interval to the
\* ladder's first step when repetitions was 0 (1 in sm2_review, 2 in
\* _sm2_review), to its second step when repetitions was 1 (6, 10), and
\* otherwise to round(old interval x new ease), the ease being the one this
\* review produced; in all three branches repetitions grows by exactly 1.
C11_IntervalLadder ==
    (op = "sm2_review" /\ args.quality >= 3) =>
        /\ sm2[1] = args.reps + 1
        /\ sm2[2] = IF args.reps = 0 THEN 1
                    ELSE IF args.reps = 1 THEN 6
                    ELSE round(args.interval * sm2[3], 100)
        /\ card.repetitions = args.card.repetitions + 1
        /\ card.interval_minutes =
                IF args.card.repetitions = 0 THEN 2
                ELSE IF args.card.repetitions = 1 THEN 10
                ELSE round(args.card.interval_minutes * card.ease_factor, 100)

\* An easy answer on the multiplying branch of both schedulers, where the
\* new ease gives another interval than the old ease would
C11_Witness ==
    /\ op = "sm2_review"
    /\ args.quality = QUALITY_EASY
    /\ args.reps >= 2 /\ args.card.repetitions >= 2
    /\ sm2[2] # round(args.interval * args.ef, 100)
    /\ card.interval_minutes
            # round(args.card.interval_minutes * args.card.ease_factor, 100)

\* C12 as claimed (SchedSpec): given the same repetitions, interval and ease
\* and the same quality, sm2_review and _sm2_review yield the same new
\* repetitions, new interval and new ease.
C12_SchedulersAgree ==
    (/\ op = "sm2_review"
     /\ args.reps = args.card.repetitions
     /\ args.interval = args.card.interval_minutes
     /\ args.ef = args.card.ease_factor) =>
        /\ sm2[1] = card.repetitions
        /\ sm2[2] = card.interval_minutes
        /\ sm2[3] = card.ease_factor

\* C13 (SchedSpec).  Every review, a failure as much as a success, sets the
\* ease to max(1.3, old ease + delta), delta = 0.1 - (5-q)(0.08 + (5-q)0.02):
\* +0.10, 0, -0.14, -0.54 for quality 5, 4, 3, 1; from 2.5 that is 2.6, 2.5,
\* 2.36, 1.96.
C13_EaseDelta ==
    op = "sm2_review" =>
        LET q == args.quality
            from_default == CASE q = 5 -> 260 [] q = 4 -> 250
                              [] q = 3 -> 236 [] q = 1 -> 196
        IN  /\ ClaimedDelta(q) = 10 - (5 - q) * (8 + (5 - q) * 2)
            /\ sm2[3] = Max(130, args.ef + ClaimedDelta(q))
            /\ card.ease_factor = Max(130, args.card.ease_factor + ClaimedDelta(q))
            /\ args.ef = 250 => sm2[3] = from_default
            /\ args.card.ease_factor = 250 => card.ease_factor = from_default

\* A failed review taking both eases from 2.5 to 1.96
C13_Witness ==
    /\ op = "sm2_review"
    /\ args.quality = QUALITY_WRONG
    /\ args.ef = 250 /\ sm2[3] = 196
    /\ args.card.ease_factor = 250 /\ card.ease_factor = 196

\* C14 (SchedSpec).  A quality=1 review takes the ease down by 0.54 or, when
\* that would pass below 1.3, to exactly 1.3, so a finite run of them ends at
\* exactly 1.3; from there a quality=1 review leaves it at exactly 1.3.  A
\* card answered with quality 1 only since it was made is at 1.96, 1.42 and
\* then 1.3 from the third review on.
C14_ClampAtMinimum ==
    (op = "sm2_review" /\ args.quality = 1) =>
        /\ sm2[3] >= 130 /\ card.ease_factor >= 130
        /\ sm2[3] = IF args.ef - 54 <= 130 THEN 130 ELSE args.ef - 54
        /\ card.ease_factor = IF args.card.ease_factor - 54 <= 130 THEN 130
                              ELSE args.card.ease_factor - 54
        /\ args.ef = 130 => sm2[3] = 130
        /\ card.correct_count = 0 =>
                card.ease_factor = CASE card.review_count = 1 -> 196
                                     [] card.review_count = 2 -> 142
                                     [] OTHER -> 130

\* The fourth of four failed reviews of a card: the ease was at 1.3 and stays
C14_Witness ==
    /\ op = "sm2_review"
    /\ args.quality = QUALITY_WRONG
    /\ card.correct_count = 0 /\ card.review_count = 4
    /\ args.card.ease_factor = 130 /\ card.ease_factor = 130
    /\ sm2[3] = 130

\* C15 (SchedSpec).  A fresh card has both counts at 0; every review adds
\* exactly 1 to review_count, and adds 1 to correct_count when the quality
\* is 3, 4 or 5 and 0 when it is 1; so correct_count <= review_count
\* throughout and review_count is the number of reviews made.
C15_Counts ==
    /\ op = "input" => card.review_count = 0 /\ card.correct_count = 0
    /\ op = "sm2_review" =>
        /\ card.review_count = args.card.review_count + 1
        /\ card.correct_count =
                args.card.correct_count
                    + (IF args.quality \in {3, 4, 5} THEN 1 ELSE 0)
    /\ card.correct_count <= card.review_count
    /\ card.correct_count >= 0

\* An unsure answer counted as correct, on a card that had failed before
C15_Witness ==
    /\ op = "sm2_review"
    /\ args.quality = QUALITY_UNSURE
    /\ card.review_count = 3 /\ card.correct_count = 2
    /\ args.card.correct_count = 1

\* C16 (SchedSpec).  Every card state reached from create_card by reviews of
\* quality 1, 3, 4 or 5 has ease_factor >= 1.3, a whole interval >= 1 and
\* repetitions >= 0; last_quality is absent on the fresh card and is the
\* quality of the latest review afterwards.
C16_CardInvariants ==
    /\ card.ease_factor >= 130
    /\ card.interval_minutes \in Nat /\ card.interval_minutes >= 1
    /\ card.repetitions \in Nat
    /\ card.review_count = 0 => card.last_quality = NoQuality
    /\ op = "sm2_review" =>
            card.last_quality \in {1, 3, 4, 5} /\ card.last_quality = args.quality

\* A failed review right after an easy one
C16_Witness ==
    /\ op = "sm2_review"
    /\ args.card.last_quality = QUALITY_EASY
    /\ card.last_quality = QUALITY_WRONG
    /\ card.interval_minutes = 1 /\ card.repetitions = 0

\* The mastery rule as the claims state it
ClaimedMastery(cards) ==
    /\ Len(cards) > 0
    /\ \A i \in 1..Len(cards) : cards[i].review_count >= 3
    /\ 10 * SumCorrect(cards) >= 8 * SumReviews(cards)

\* C17 (AdvSpec).  try_advance with cards that do not satisfy mastery, the
\* empty collection included, returns advanced=false and completed=false and
\* leaves currentTier, completed, tierCount and the tiers map as they were.
C17_NoAdvanceFrame ==
    [][(op' = "try_advance" /\ ~ClaimedMastery(args'.cards)) =>
            /\ ret' = [advanced |-> FALSE, completed |-> FALSE]
            /\ state' = state]_vars

\* An evaluation of the empty collection at tier 3
C17_Witness ==
    /\ op = "try_advance"
    /\ args.cards = <<>>
    /\ ret = [advanced |-> FALSE, completed |-> FALSE]
    /\ state.currentTier = 3 /\ ~state.completed

\* C18 (Spec).  A reset, from any tier, completed or not, whatever the card
\* states, yields currentTier = 1, completed = false and an empty tiers map
\* with system and tierCount as before.
C18_ResetFresh ==
    [][op' = "reset" =>
            state' = [system |-> state.system,
                      currentTier |-> 1,
                      tierCount |-> state.tierCount,
                      completed |-> FALSE,
                      tiers |-> <<>>]]_vars

\* A reset of a completed progression that held reviewed cards
C18_Witness ==
    /\ op = "reset"
    /\ args.before.completed
    /\ args.before.currentTier = args.before.tierCount
    /\ args.before.currentTier \in DOMAIN args.before.tiers
    /\ DOMAIN state.tiers = {}
    /\ state.currentTier = 1 /\ ~state.completed

\* The position of a letter as the claims count it, 1 for alef to 22 for tav
ClaimedPosition(l) == CHOOSE p \in 1..22 : LetterNames[p] = l

\* C19 (LetterSpec).  For each of the 22 letters at position p: atbash gives
\* the letter at 23-p and atbash of that is the letter again; albam gives the
\* letter at p+11 for p <= 11 and at p-11 otherwise, and albam of that is the
\* letter again; avgad forward gives the letter at (p mod 22)+1, tav going
\* to alef, and avgad reverse of that is the letter again.
C19_Ciphers ==
    LET p == ClaimedPosition(args.ch)
    IN  /\ op = "atbash" =>
            /\ ClaimedPosition(ret.out) = 23 - p
            /\ ret.again = args.ch
        /\ op = "albam" =>
            /\ ClaimedPosition(ret.out) = IF p <= 11 THEN p + 11 ELSE p - 11
            /\ ret.again = args.ch
        /\ op = "avgad" =>
            /\ ClaimedPosition(ret.out) = (p % 22) + 1
            /\ args.ch = "tav" => ret.out = "alef"
            /\ ret.again = args.ch

\* avgad of tav: forward wraps to alef, reverse of alef is tav
C19_Witness ==
    /\ op = "avgad"
    /\ args.ch = "tav"
    /\ ret = [out |-> "alef", again |-> "tav"]

\* The values of the claims, by position: standard and digit-reduced
ClaimedStandard ==
    <<1, 2, 3, 4, 5, 6, 7, 8, 9, 10, 20, 30, 40, 50, 60, 70, 80, 90,
      100, 200, 300, 400>>
ClaimedKatan ==
    <<1, 2, 3, 4, 5, 6, 7, 8, 9, 1, 2, 3, 4, 5, 6, 7, 8, 9, 1, 2, 3, 4>>

\* The base letter of a glyph and the final value of a final form
ClaimedBase(ch) ==
    CASE ch = "kaf-final" -> "kaf"
      [] ch = "mem-final" -> "mem"
      [] ch = "nun-final" -> "nun"
      [] ch = "pe-final" -> "pe"
      [] ch = "tsadi-final" -> "tsadi"
      [] OTHER -> ch
ClaimedFinalValue(ch) ==
    CASE ch = "kaf-final" -> 500
      [] ch = "mem-final" -> 600
      [] ch = "nun-final" -> 700
      [] ch = "pe-final" -> 800
      [] ch = "tsadi-final" -> 900

\* C20 (LetterSpec).  For the 22 base letters and the 5 final forms:
\* hechrachi is the standard value, a final form giving its base letter's;
\* gadol is the standard value for a base letter and 500, 600, 700, 800, 900
\* for the final forms; katan is the standard value with its trailing
\* factors of ten divided out, in 1..9, a final form reducing like its base;
\* siduri is the position 1..22, a final form sharing its base's.
C20_Values ==
    (/\ op = "value"
     /\ args.system \in {"hechrachi", "gadol", "katan", "siduri"}
     /\ ClaimedBase(args.ch) \in {LetterNames[p] : p \in 1..22}) =>
        LET p == ClaimedPosition(ClaimedBase(args.ch))
            is_final == ClaimedBase(args.ch) # args.ch
        IN  /\ args.system = "hechrachi" => ret = ClaimedStandard[p]
            /\ args.system = "gadol" =>
                    ret = IF is_final THEN ClaimedFinalValue(args.ch)
                          ELSE ClaimedStandard[p]
            /\ args.system = "katan" => ret = ClaimedKatan[p] /\ ret \in 1..9
            /\ args.system = "siduri" => ret = p

\* Final nun under gadol: 700, not the 50 of nun
C20_Witness ==
    /\ op = "value"
    /\ args = [ch |-> "nun-final", system |-> "gadol"]
    /\ ret = 700

\* C21 as claimed (LetterSpec): value() of a glyph that is neither a base
\* letter nor a final form, or under a system name that is none of the known
\* systems, ends in an error outcome; it never returns 0 or any other number.
C21_UnknownIsError ==
    (/\ op = "value"
     /\ \/ ClaimedBase(args.ch) \notin {LetterNames[p] : p \in 1..22}
        \/ args.system \notin {"hechrachi", "gadol", "katan", "siduri",
                               "atbash", "albam", "avgad"}) =>
        ret \notin Int

\* The letters of a number below a thousand as the greedy decomposition
\* spells them: hundreds, then the ten, then the unit
ClaimedHundreds ==
    <<<<"qof">>, <<"resh">>, <<"shin">>, <<"tav">>, <<"tav", "qof">>,
      <<"tav", "resh">>, <<"tav", "shin">>, <<"tav", "tav">>,
      <<"tav", "tav", "qof">>>>
ClaimedTens ==
    <<"yod", "kaf", "lamed", "mem", "nun", "samekh", "ayin", "pe", "tsadi">>
ClaimedUnits ==
    <<"alef", "bet", "gimel", "dalet", "he", "vav", "zayin", "chet", "tet">>
ClaimedGreedy(n) ==
    LET h == n \div 100
        t == (n % 100) \div 10
        u == n % 10
    IN  (IF h = 0 THEN <<>> ELSE ClaimedHundreds[h])
            \o (IF t = 0 THEN <<>> ELSE <<ClaimedTens[t]>>)
            \o (IF u = 0 THEN <<>> ELSE <<ClaimedUnits[u]>>)

\* A string without its punctuation marks
IsMark(g) == g \in {"geresh", "gershayim"}
WithoutMarks(s) == SelectSeq(s, LAMBDA g : ~IsMark(g))

\* C22 (EncSpec).  For n in 1..999 the letters of encode(n) never hold yod-he
\* or yod-vav: where the greedy decomposition ends in 10+5 or 10+6
\* (n mod 100 = 15 or 16) they end in tet-vav or tet-zayin instead, and all
\* other letters are those of the greedy decomposition.
C22_FifteenSixteen ==
    (op = "encode" /\ args.n \in 1..999) =>
        LET n == args.n
            letters == WithoutMarks(ret)
        IN  /\ \A i \in 1..(Len(letters) - 1) :
                    ~(letters[i] = "yod" /\ letters[i + 1] \in {"he", "vav"})
            /\ letters =
                    IF n % 100 = 15 THEN ClaimedGreedy(n - 15) \o <<"tet", "vav">>
                    ELSE IF n % 100 = 16 THEN ClaimedGreedy(n - 16) \o <<"tet", "zayin">>
                    ELSE ClaimedGreedy(n)

\* 916: tav tav qof, then tet-zayin for the 16
C22_Witness ==
    /\ op = "encode"
    /\ args.n = 916
    /\ ret = <<"tav", "tav", "qof", "tet", "gershayim", "zayin">>

\* C23 (EncSpec).  A non-empty encode(n) holds exactly one punctuation mark:
\* one letter is followed by a geresh; of k >= 2 letters the first k-1 come
\* first, then a gershayim, then the last letter.
C23_OneMark ==
    (op = "encode" /\ ret # <<>>) =>
        LET k == Len(WithoutMarks(ret))
        IN  /\ k >= 1
            /\ Len(ret) = k + 1
            /\ k = 1 => ~IsMark(ret[1]) /\ ret[2] = "geresh"
            /\ k >= 2 =>
                /\ \A i \in 1..(k - 1) : ~IsMark(ret[i])
                /\ ret[k] = "gershayim"
                /\ ~IsMark(ret[k + 1])

\* 18: yod, gershayim, chet
C23_Witness ==
    /\ op = "encode"
    /\ args.n = 18
    /\ ret = <<"yod", "gershayim", "chet">>

\* C24 (EncSpec).  For n >= 1000 with omit_thousands, encode(n) is
\* encode(n mod 1000); when the value to render is 0 (n = 0, or a multiple of
\* 1000 with omit_thousands) the result is the empty string.
C24_ThousandsOmitted ==
    op = "encode" =>
        LET n == args.n
            rendered == IF args.omit_thousands /\ n >= 1000 THEN n % 1000 ELSE n
        IN  /\ (n >= 1000 /\ args.omit_thousands) =>
                    /\ ret = _encode(n % 1000, TRUE)
                    /\ ret = _encode(n % 1000, FALSE)
            /\ rendered = 0 => ret = <<>>
            /\ rendered # 0 => ret # <<>>

\* The year 5784 rendered as 784
C24_Witness ==
    /\ op = "encode"
    /\ args = [n |-> 5784, omit_thousands |-> TRUE]
    /\ ret = <<"tav", "shin", "pe", "gershayim", "dalet">>

\* The glyphs of the claims: the base letters of positions lo..hi, and the
\* five final forms
ClaimedLetters(lo, hi) == {LetterNames[p] : p \in lo..hi}
ClaimedFinals == {"kaf-final", "mem-final", "nun-final", "pe-final", "tsadi-final"}

\* The cards of a given type among specs whose letter (the prompt, or the
\* answer of a value-to-letter card) is g
CardsOf(specs, type, g) ==
    {k \in 1..Len(specs) :
        /\ specs[k].type = type
        /\ g = IF type = "value-to-letter" THEN specs[k].answer ELSE specs[k].prompt}

\* specs is exactly the two-card pair of every glyph of covered
TwoCardsEach(specs, covered) ==
    /\ Len(specs) = 2 * Cardinality(covered)
    /\ \A g \in covered :
        /\ Cardinality(CardsOf(specs, "letter-to-value", g)) = 1
        /\ Cardinality(CardsOf(specs, "value-to-letter", g)) = 1

IdsOf(specs) == {specs[k].id : k \in 1..Len(specs)}

\* C25 (CatalogSpec).  For hechrachi and gadol: tiers 1, 2, 3 hold the base
\* letters of positions 1-9, 10-18, 19-22 and tier 4 the 5 final forms, two
\* cards (letter-to-value, value-to-letter) for each letter: 18, 18, 8 and 10
\* cards; tiers 5-8 are not static and carry no specs.
C25_EightTierCatalog ==
    (op = "get_cards" /\ args.system \in {"hechrachi", "gadol"}) =>
        LET level == args.level
            covered == CASE level = 1 -> ClaimedLetters(1, 9)
                         [] level = 2 -> ClaimedLetters(10, 18)
                         [] level = 3 -> ClaimedLetters(19, 22)
                         [] level = 4 -> ClaimedFinals
                         [] OTHER -> {}
        IN  /\ TwoCardsEach(ret.specs, covered)
            /\ Len(ret.specs) = CASE level = 1 -> 18 [] level = 2 -> 18
                                  [] level = 3 -> 8 [] level = 4 -> 10
                                  [] OTHER -> 0
            /\ ret.static <=> level <= 4

\* The 10 cards of the final forms, tier 4 of gadol
C25_Witness ==
    /\ op = "get_cards"
    /\ args = [system |-> "gadol", level |-> 4]
    /\ Len(ret.specs) = 10
    /\ ret.specs[1].prompt = "kaf-final" /\ ret.specs[1].answer = "500"

\* C26 (CatalogSpec).  For katan and siduri: tier 1 holds base letters 1-9,
\* tier 2 letters 10-18, tier 3 letters 19-22 and the 5 final forms, tier 4
\* all 22 letters and the 5 final forms, its card ids being those of tiers
\* 1-3 together; two cards for each item: 18, 18, 18 and 54 cards; all four
\* tiers are static.
C26_FourTierCatalog ==
    (op = "get_cards" /\ args.system \in {"katan", "siduri"}) =>
        LET level == args.level
            covered == CASE level = 1 -> ClaimedLetters(1, 9)
                         [] level = 2 -> ClaimedLetters(10, 18)
                         [] level = 3 -> ClaimedLetters(19, 22) \cup ClaimedFinals
                         [] level = 4 -> ClaimedLetters(1, 22) \cup ClaimedFinals
        IN  /\ TwoCardsEach(ret.specs, covered)
            /\ Len(ret.specs) = CASE level = 1 -> 18 [] level = 2 -> 18
                                  [] level = 3 -> 18 [] level = 4 -> 54
            /\ level = 4 =>
                    IdsOf(ret.specs) = IdsOf(getCards(args.system, 1))
                                        \cup IdsOf(getCards(args.system, 2))
                                        \cup IdsOf(getCards(args.system, 3))
            /\ ret.static

\* The 54 cards of tier 4 of katan
C26_Witness ==
    /\ op = "get_cards"
    /\ args = [system |-> "katan", level |-> 4]
    /\ Len(ret.specs) = 54
    /\ "val-to-mem-final" \in IdsOf(ret.specs)

\* C27 (CatalogSpec).  For atbash, albam and avgad: tier 1 has one forward
\* card for each of the first 11 letters, tier 2 for each of the other 11,
\* tier 3 for each of the 22; reverse cards are in tier 3 of avgad only, one
\* for each letter (44 cards), tier 3 of atbash and albam having 22.
C27_CipherCatalog ==
    (op = "get_cards" /\ args.system \in {"atbash", "albam", "avgad"}) =>
        LET level == args.level
            specs == ret.specs
            covered == CASE level = 1 -> ClaimedLetters(1, 11)
                         [] level = 2 -> ClaimedLetters(12, 22)
                         [] level = 3 -> ClaimedLetters(1, 22)
            reversed == args.system = "avgad" /\ level = 3
        IN  /\ \A g \in covered :
                /\ Cardinality(CardsOf(specs, "cipher-forward", g)) = 1
                /\ Cardinality(CardsOf(specs, "cipher-reverse", g))
                        = IF reversed THEN 1 ELSE 0
            /\ Len(specs) = IF reversed THEN 44 ELSE Cardinality(covered)
            /\ \A k \in 1..Len(specs) :
                    specs[k].type = "cipher-forward"
                        \/ (reversed /\ specs[k].type = "cipher-reverse")

\* Tier 3 of avgad: 44 cards, the second the reverse card of alef
C27_Witness ==
    /\ op = "get_cards"
    /\ args = [system |-> "avgad", level |-> 3]
    /\ Len(ret.specs) = 44
    /\ ret.specs[2].type = "cipher-reverse" /\ ret.specs[2].prompt = "alef"

\* The slug of a glyph as the claims take it: the lower-case name of the
\* letter, "-final" added for a final form
ClaimedSlug(g) == g

\* C28 (CatalogSpec).  The card ids of a tier are pairwise distinct, also
\* where the tier holds a letter with its final form or the forward and the
\* reverse card of a letter; each id is made of nothing but the slug of the
\* card's letter and the card's type, so generating the tier again gives
\* the same ids in the same order.
C28_UniqueIds ==
    op = "get_cards" =>
        LET specs == ret.specs
        IN  /\ \A j, k \in 1..Len(specs) : specs[j].id = specs[k].id => j = k
            /\ \A k \in 1..Len(specs) :
                    specs[k].id =
                        CASE specs[k].type = "letter-to-value" ->
                                ClaimedSlug(specs[k].prompt) \o "-to-val"
                          [] specs[k].type = "value-to-letter" ->
                                "val-to-" \o ClaimedSlug(specs[k].answer)
                          [] specs[k].type = "cipher-forward" ->
                                "cipher-" \o ClaimedSlug(specs[k].prompt)
                          [] specs[k].type = "cipher-reverse" ->
                                "cipher-rev-" \o ClaimedSlug(specs[k].prompt)

\* Tier 4 of siduri, which holds nun and final nun
C28_Witness ==
    /\ op = "get_cards"
    /\ args = [system |-> "siduri", level |-> 4]
    /\ {"nun-to-val", "nun-final-to-val"} \subseteq IdsOf(ret.specs)

C30_TierInRange ==
    /\ 1 <= state.currentTier
    /\ state.currentTier <= state.tierCount
    /\ state.tierCount \in {8, 4, 3}

\* C31 (AdvSpec).  A mastery evaluation made on a state that is already
\* completed does not report completion again: completed = true is returned
\* only by the evaluation that completes the system.
C31_CompletionReportedOnce ==
    [][(state.completed /\ op' = "try_advance") => ~ret'.completed]_vars

\* C32 (CollectionSpec).  A review changes exactly one card of the
\* collection: the card at the position of the reviewed id is the reviewed
\* state (same card_id, one review more, the quality recorded), every other
\* card is as it was, and the collection keeps its length and its order of
\* ids.
C32_ReviewFrame ==
    op = "review" =>
        LET before == args.before
            after == ret.cards
            i == args.index
        IN  /\ Len(after) = Len(before)
            /\ \A k \in 1..Len(before) : after[k].card_id = before[k].card_id
            /\ after[i].review_count = before[i].review_count + 1
            /\ after[i].last_quality = args.quality
            /\ after[i] = card
            /\ \A k \in 1..Len(before) : k # i => after[k] = before[k]

\* The second of three cards reviewed, after the third had been
C32_Witness ==
    /\ op = "review"
    /\ Len(ret.cards) = 3
    /\ args.index = 2
    /\ ret.cards[1].review_count = 0
    /\ ret.cards[2].review_count = 1
    /\ ret.cards[3].review_count = 1

\* C33 (SelSpec).  When select returns type=card, the card is one of the
\* cards it was given and the spec is the one of the specs whose id is the
\* card's card_id (every card of the inputs has a spec); when it returns
\* type=advance or type=review, card and spec are both absent.
C33_ResultShape ==
    op = "select" =>
        /\ ret.type = "card" =>
            /\ \E k \in 1..Len(args.cards) : ret.card = args.cards[k]
            /\ \E j \in 1..Len(args.specs) : ret.spec = args.specs[j]
            /\ ret.spec.id = ret.card.card_id
        /\ ret.type \in {"advance", "review"} =>
            /\ ret.card = None
            /\ ret.spec = None

\* An overdue card that is second in the cards and first in the specs
C33_Witness ==
    /\ op = "select"
    /\ Len(args.cards) = 2
    /\ args.specs[1].id = 2
    /\ ret.type = "card"
    /\ ret.card = args.cards[2]
    /\ ret.card.next_review < args.now
    /\ ret.spec = args.specs[1]

\* C34 (FreshSpec).  On a freshly populated tier (no card reviewed, every
\* card made by _create_card with its default next_review) the first select
\* returns the card of the first spec, whatever the order of the cards.
C34_FirstSpecFirst ==
    op = "select" =>
        /\ ret.type = "card"
        /\ ret.card.card_id = args.specs[1].id
        /\ ret.spec = args.specs[1]

\* A table as C35 wants it: 22 rows, 5 of them with a final form, row k
\* carrying position k
ClaimedWellFormed(rows) ==
    /\ Len(rows) = 22
    /\ Cardinality({k \in 1..Len(rows) : rows[k].final_form # ""}) = 5
    /\ \A k \in 1..Len(rows) : rows[k].position = k

\* C35 (LoadSpec).  Every table load_letters returns has 22 rows, 5 final
\* forms and the positions 1..22 in row order, so that row position - 1 is
\* the letter of that position.
C35_LoadedTableWellFormed ==
    (op = "load_letters" /\ ~ret.raised) => ClaimedWellFormed(ret.rows)

\* C36 (Spec).  Without a reset the current tier never goes down: a review
\* or a population of the tier leaves it where it is, a mastery evaluation
\* adds 0 or 1 to it, and no single evaluation both advances the tier and
\* sets or reports completed.
C36_TierMonotone ==
    [][op' # "reset" =>
          /\ state'.currentTier >= state.currentTier
          /\ op' # "try_advance" => state'.currentTier = state.currentTier
          /\ op' = "try_advance" =>
                /\ state'.currentTier - state.currentTier \in {0, 1}
                /\ ~(ret'.advanced /\ ret'.completed)
                /\ state'.currentTier > state.currentTier =>
                        /\ state'.completed = state.completed
                        /\ ret'.advanced]_vars

\* The second advance of a system: tier 3 entered from tier 2
C36_Witness ==
    /\ op = "try_advance"
    /\ ret.advanced
    /\ state.currentTier = 3
    /\ ~state.completed

C38_StuckAtTierFive ==
    /\ state.currentTier <= 5
    /\ ~state.completed
    /\ (state.currentTier = 5 /\ TierPopulated) => CurrentCards = <<>>
    /\ (state.currentTier = 5 /\ op = "select") =>
            ret = [type |-> "review", card |-> None, spec |-> None]
    /\ (state.currentTier = 5 /\ op = "try_advance") =>
            (ret.advanced => args.cards # <<>>) /\ ~ret.completed

\* A mastery evaluation made at tier 5, on its empty collection
C38_Witness ==
    /\ state.currentTier = 5
    /\ op = "try_advance"
    /\ args.cards = <<>>
    /\ ret = [advanced |-> FALSE, completed |-> FALSE]

\* C39 (SchedSpec).  In every card state reached from create_card by
\* reviews, repetitions <= correct_count <= review_count, and a card with no
\* repetitions has the interval 1; repetitions is the length of the run of
\* successful reviews the card is in (one more after a success, 0 after a
\* failure).
C39_StreakBounds ==
    /\ card.repetitions <= card.correct_count
    /\ card.correct_count <= card.review_count
    /\ card.repetitions = 0 => card.interval_minutes = 1
    /\ op = "sm2_review" =>
            card.repetitions =
                IF args.quality >= 3 THEN args.card.repetitions + 1 ELSE 0

\* A card that failed its second review and succeeded in the two after it
C39_Witness ==
    /\ op = "sm2_review"
    /\ card.review_count = 4
    /\ card.correct_count = 3
    /\ card.repetitions = 2
    /\ card.interval_minutes = 10

\* The standard value of a letter, by its position in the alphabet
ClaimedValue(l) == ClaimedStandard[ClaimedPosition(l)]

RECURSIVE ClaimedSum(_)
ClaimedSum(s) ==
    IF s = <<>> THEN 0 ELSE ClaimedValue(Head(s)) + ClaimedSum(Tail(s))

\* C40 (EncSpec).  For every n >= 1 rendered without thousands reduction, and
\* every n in 1..999: the values of the letters of encode(n), punctuation
\* removed, sum to n; each letter's value is at least the next letter's,
\* unless the two are tet-vav or tet-zayin; and no other number of 1..999
\* has the encoding of a number of 1..999.
C40_LettersSumToN ==
    (op = "encode" /\ args.n >= 1 /\ (~args.omit_thousands \/ args.n <= 999)) =>
        LET s == WithoutMarks(ret)
        IN  /\ ClaimedSum(s) = args.n
            /\ \A i \in 1..(Len(s) - 1) :
                    \/ ClaimedValue(s[i]) >= ClaimedValue(s[i + 1])
                    \/ <<s[i], s[i + 1]>> \in
                            {<<"tet", "vav">>, <<"tet", "zayin">>}
            /\ args.n <= 999 =>
                    \A m \in 1..999 : m # args.n => _encode(m, FALSE) # ret

\* 5784 rendered with its thousands: fourteen tavs, then qof, pe, dalet
C40_Witness ==
    /\ op = "encode"
    /\ args = [n |-> 5784, omit_thousands |-> FALSE]
    /\ Len(WithoutMarks(ret)) = 17
    /\ ClaimedSum(WithoutMarks(ret)) = 5784

====
